---- MODULE Spec2Model ----
(***************************************************************************)
(* Model of the distributed message-claiming core of afk:                  *)
(*   lib/services/queue.js      QueueService (append log, claim lock,      *)
(*                              distributedTelegramPoll)                   *)
(*   lib/services/sessions.js   SessionsService (active-sessions registry) *)
(*   lib/integration/claude-hooks.js  ClaudeHooksService (PermissionRequest*)
(*                              hook, waitForApproval, first Stop wait)    *)
(* Every hook invocation is an operating-system process; the processes     *)
(* share the files under ~/.afk and the Telegram inbox.  One step of the    *)
(* model is one file-system call, one await, or a run of purely local      *)
(* statements of one process.                                              *)
(***************************************************************************)
EXTENDS Integers, Sequences, FiniteSets, TLC

(* ------------------------------ bounds --------------------------------- *)
\* number of updates the operator sends during a run
MaxUpdates == 2
\* granularity of the wall clock, in ms
ClockStep == 1000
\* number of clock steps a run covers
MaxClockSteps == 1
\* attempts of the lock-acquisition loop of atomicClaimMessage (50 in
\* queue.js line 113; the loop behaves alike for every value >= 1)
maxAttempts == 2
\* consecutive empty ticks a poll has behind it when it is first observed
MaxEmptyPolls == 10

(* ------------------------- program constants --------------------------- *)
GetUpdatesLimit == 10
InitialPollDelayMs == 100
FastPollDelayMs == 50
MaxPollDelayMs == 500
ErrorBackoffMs == 500
AbandonedCheckIntervalMs == 60000
AbandonedTimeoutSeconds == 10
WaitForeverSeconds == 999999
WaitForeverMs == 999999000
DEFAULT_TIMEOUT == 3600

(* ------------------------------ universe ------------------------------- *)
Procs == {"h1", "h2"}
\* the Claude session a hook invocation belongs to
sessionOf(p) == IF p = "h1" THEN "s1" ELSE "s2"
\* a session whose hook is gone (its entry is stale in the registry)
OldSession == "s0"
Sessions == {sessionOf(p) : p \in Procs} \cup {OldSession}
\* cryptoRandomId(): one fresh id per invocation
approvalIdOf(p) == p

NoFile == ""
Modes == {"remote", "local", "readonly"}
None == [none |-> TRUE]

\* wall clock at the start of a run; Date.now() is far beyond the sweep interval
Epoch == AbandonedCheckIntervalMs + ClockStep
MaxClock == Epoch + MaxClockSteps * ClockStep

\* Telegram updates: a button press (callback_query with data "action:ref")
\* or a free-text message from the configured chat
\* reply_to: the message_id a text message replies to ("" = not a reply).
\* The notification a hook sends for session s has message_id s, and the
\* buttons of that notification carry data "action:s"
NoReply == ""
Callback(action, ref) ==
    [callback_query |-> TRUE, action |-> action, ref |-> ref, reply_to |-> NoReply]
TextMessage ==
    [callback_query |-> FALSE, action |-> "text", ref |-> "chat", reply_to |-> NoReply]
ReplyTo(messageId) == [TextMessage EXCEPT !.reply_to = messageId]
Payloads == {Callback("approve", approvalIdOf("h1")), TextMessage}
\* the buttons of the approval request of h1, and a callback with an unknown tag
DecisionPayloads ==
    {Callback(tag, approvalIdOf("h1")) :
        tag \in {"approve", "deny", "allow_all", "ask_ui", "other"}}
\* the Reply buttons of the two notifications, a plain text message, and a
\* text message sent as a reply to the notification of s2
ReplyPayloads == {Callback("reply", "s1"), Callback("reply", "s2"),
                  TextMessage, ReplyTo("s2")}
\* a button of each of the two approval requests and a plain text message
ApprovalPayloads == {Callback("approve", approvalIdOf("h1")),
                     Callback("deny", approvalIdOf("h2")), TextMessage}
\* the two buttons of the Stop notification of s1 and a plain text message
StopPayloads == {Callback("reply", "s1"), Callback("finish", "s1"), TextMessage}

Max(a, b) == IF a >= b THEN a ELSE b
Min(a, b) == IF a <= b THEN a ELSE b
SetMax(S) == CHOOSE x \in S : \A y \in S : y <= x

VARIABLES
    now,              \* wall clock (ms)
    modeFile,         \* ~/.config/afk/mode
    sessionModeFile,  \* sessions/<id>/mode, per session ("" = no file)
    projectModeFile,  \* <cwd>/.afk/mode ("" = no file)
    cfg,              \* config.json
    env,              \* process.env of the hook processes
    tgUpdates,        \* the bot's inbox at Telegram; update_id = index
    globalQueue,      \* messages/global.jsonl
    processedQueue,   \* messages/processed.jsonl
    lockFile,         \* messages/locks/message-claim.lock ("" = no file)
    activeSessions,   \* active-sessions.json
    replyLock,        \* reply-lock.json (None = no file)
    hk,               \* per process: position and local variables
    stdout,           \* per process: what the hook wrote to standard output
    tgSent,           \* per process: the notifications it posted to the chat
    settingsAllow     \* permissions.allow of the Claude settings file

vars == <<now, modeFile, sessionModeFile, projectModeFile, cfg, env, tgUpdates,
          globalQueue, processedQueue, lockFile, activeSessions, replyLock, hk, stdout, tgSent, settingsAllow>>

(* ------------------------- configuration (part_001) -------------------- *)
\* ConfigManager.cfg(): defaults applied to the raw config.json
cfgLoaded(raw) ==
    [timeout_seconds |-> IF raw.timeout_seconds = 0 THEN DEFAULT_TIMEOUT
                         ELSE raw.timeout_seconds,
     timeout_action  |-> IF raw.timeout_action = "" THEN "deny"
                         ELSE raw.timeout_action,
     telegram_bot_token |-> IF raw.telegram_bot_token # "" THEN raw.telegram_bot_token
                            ELSE env.TELEGRAM_BOT_TOKEN]

\* a service that takes every configuration for a usable one
tokenConfiguredAlways(c) == TRUE

\* distributedTelegramPoll: if (!token) throw; sendMessage: not configured
tokenConfigured(c) == c.telegram_bot_token # ""

\* ConfigManager.readMode(): the global mode, validated
configReadMode(file) == IF file \in Modes THEN file ELSE "local"

(* ------------------------- mode (claude-hooks.js) ---------------------- *)
\* a poller that keeps the mode it saw at hook entry instead of re-reading
readModeCached(file) == "remote"

\* ClaudeHooksService.readMode(): the global mode file only
readMode(file) == IF file = NoFile THEN "local" ELSE file

getSessionMode(sessionId) == sessionModeFile[sessionId]
getProjectMode == projectModeFile

\* a resolution that consults the project level before the session level
getEffectiveModeProjectFirst(sessionId) ==
    IF getProjectMode # NoFile THEN getProjectMode
    ELSE IF getSessionMode(sessionId) # NoFile THEN getSessionMode(sessionId)
    ELSE configReadMode(modeFile)

getEffectiveMode(sessionId) ==
    IF getSessionMode(sessionId) # NoFile THEN getSessionMode(sessionId)
    ELSE IF getProjectMode # NoFile THEN getProjectMode
    ELSE configReadMode(modeFile)

(* ------------------------- message filters ----------------------------- *)
\* an approval filter that takes every button press for its own
approvalMessageFilterAnyId(approvalId, update) == update.callback_query

\* waitForApproval.messageFilter: a callback whose data includes the approval id
approvalMessageFilter(approvalId, update) ==
    update.callback_query /\ update.ref = approvalId

\* a first-wait filter that matches the buttons of any session
stopMessageFilterAnySession(sessionId, update) ==
    IF update.callback_query
    THEN update.action \in {"reply", "finish"}
    ELSE TRUE

\* waitForStopResponse.messageFilter (first wait)
stopMessageFilter(sessionId, update) ==
    IF update.callback_query
    THEN update.action \in {"reply", "finish"} /\ update.ref = sessionId
    ELSE TRUE   \* a text message, not a command, from the configured chat

\* an ownership check that forgets the owner's own case
isMyMessageReplyOnly(sessionId, message, lock) ==
    IF lock = None THEN TRUE
    ELSE message.reply_to # NoReply /\ message.reply_to = lock.messageId

\* SessionsService.isMyMessage(sessionId, message), lock = getReplyLock()
isMyMessage(sessionId, message, lock) ==
    IF lock = None THEN TRUE
    ELSE IF lock.sessionId = sessionId THEN TRUE
    ELSE message.reply_to # NoReply /\ message.reply_to = lock.messageId

\* waitForStopResponse.textMessageFilter (wait after the Reply button): the
\* decision; on acceptance the filter also clears the reply lock
textMessageFilter(sessionId, update, lock) ==
    ~update.callback_query /\ isMyMessage(sessionId, update, lock)

filterFn(p, update) ==
    IF hk[p].hook = "PermissionRequest"
    THEN approvalMessageFilter(approvalIdOf(p), update)
    ELSE IF hk[p].phase = "text"
    THEN textMessageFilter(sessionOf(p), update, replyLock)
    ELSE stopMessageFilter(sessionOf(p), update)

(* ------------------------- queue.js: pure parts ------------------------ *)
getProcessedUpdateIds(file) == {file[i].update_id : i \in DOMAIN file}

\* a line of global.jsonl that JSON.parse rejects
MalformedLine == [update_id |-> 0, update |-> None]
parses(line) == line # MalformedLine

\* getGlobalQueueUpdateIds: try/catch around each line, invalid lines skipped
getGlobalQueueUpdateIds(file) ==
    {file[i].update_id : i \in {j \in DOMAIN file : parses(file[j])}}

\* getAllMessages: try/catch around each line, unparsable lines dropped
getAllMessages(file) == SelectSeq(file, parses)

\* getMyMessages: JSON.parse(line) is inside the for loop and the try/catch
\* around it, so the loop ends at the first line that does not parse
linesRead(file) ==
    LET bad == {i \in DOMAIN file : ~parses(file[i])} IN
    IF bad = {} THEN file
    ELSE SubSeq(file, 1, (CHOOSE i \in bad : \A j \in bad : i <= j) - 1)

\* getMyMessages: the unprocessed entries the filter accepts, in file order
getMyMessages(p, processed, file) ==
    SelectSeq(linesRead(file), LAMBDA entry :
        entry.update_id \notin processed /\ filterFn(p, entry.update))

\* getMyMessages with textMessageFilter: the filter runs on every unprocessed
\* entry in file order and unlinks the reply lock each time it accepts
RECURSIVE scanWithLock(_, _, _, _)
scanWithLock(sessionId, entries, lock, acc) ==
    IF entries = <<>> THEN [myMessages |-> acc, lock |-> lock]
    ELSE IF textMessageFilter(sessionId, Head(entries).update, lock)
    THEN scanWithLock(sessionId, Tail(entries), None, Append(acc, Head(entries)))
    ELSE scanWithLock(sessionId, Tail(entries), lock, acc)

\* getUpdates(offset, limit): the updates with update_id >= offset
getUpdates(offset) ==
    [i \in 1 .. Min(GetUpdatesLimit, Max(0, Len(tgUpdates) - offset + 1)) |->
        [update_id |-> offset + i - 1, update |-> tgUpdates[offset + i - 1]]]

\* a cursor that moves to the first update of the batch only
firstUpdateId(updates) == updates[1].update_id

\* Math.max(...updates.map(u => u.update_id))
maxUpdateId(updates) == SetMax({updates[i].update_id : i \in DOMAIN updates})

\* an acquisition loop that retries until the lock is free
attemptsExhaustedNever(attempt) == FALSE

\* the acquisition loop of atomicClaimMessage is left when the attempts are used up
attemptsExhausted(attempt) == attempt >= maxAttempts

\* an adaptive delay that grows without a cap
nextPollDelayMsUncapped(gotUpdates, emptyPolls) ==
    IF gotUpdates THEN FastPollDelayMs
    ELSE 50 + emptyPolls * 50

\* adaptive delay after an unsuccessful claim
nextPollDelayMs(gotUpdates, emptyPolls) ==
    IF gotUpdates THEN FastPollDelayMs
    ELSE Min(MaxPollDelayMs, 50 + emptyPolls * 50)

\* a sweep that lists a session as soon as the threshold is reached
checkAbandonedSessionsInclusive(sessions, t) ==
    {s \in Sessions : sessions[s] # None
                      /\ t - sessions[s].lastActivity >= AbandonedTimeoutSeconds * 1000}

\* checkAbandonedSessions(timeoutSeconds = 10) on a loaded registry
checkAbandonedSessions(sessions, t) ==
    {s \in Sessions : sessions[s] # None
                      /\ t - sessions[s].lastActivity > AbandonedTimeoutSeconds * 1000}

(* ------------------------- waitForApproval: pure parts ----------------- *)
approvalTimeoutSeconds(c) ==
    IF c.timeout_seconds = 0 \/ c.timeout_seconds = -1 THEN WaitForeverSeconds
    ELSE c.timeout_seconds

approvalTimeoutMs(c) ==
    IF c.timeout_action = "wait" THEN WaitForeverMs
    ELSE approvalTimeoutSeconds(c) * 1000

\* a decision written to standard output; NoOpinion is "nothing written"
NoMessage == [text |-> "", seconds |-> 0]
Allow == [behavior |-> "allow", message |-> NoMessage]
Deny(msg) == [behavior |-> "deny", message |-> msg]
NoOpinion == [behavior |-> "none", message |-> NoMessage]
\* process.exit(2) with the operator's text on stderr: the agent continues
Continue == [behavior |-> "continue", message |-> NoMessage]

\* the permission patterns stored in the approval's .meta file
patternsOf(p) == {p}

\* processToolApproval, allow_all: addPermissionToSettings for each pattern
allowedAfter(p, update, allow) ==
    IF update # None /\ update.callback_query /\ update.action = "allow_all"
    THEN allow \cup patternsOf(p)
    ELSE allow

\* a decoder that takes the delegate button for an approval
processToolApprovalAskAllows(update) ==
    CASE update.action = "approve"   -> Allow
      [] update.action = "deny"      -> Deny([text |-> "Denied via Telegram", seconds |-> 0])
      [] update.action = "allow_all" -> Allow
      [] update.action = "ask_ui"    -> Allow
      [] OTHER                       -> NoOpinion

\* processToolApproval: the decision for a claimed callback
processToolApproval(update) ==
    CASE update.action = "approve"   -> Allow
      [] update.action = "deny"      -> Deny([text |-> "Denied via Telegram", seconds |-> 0])
      [] update.action = "allow_all" -> Allow
      [] OTHER                       -> NoOpinion

\* waitForApproval after the poll returned normally (a message or null)
approvalResult(c, update) ==
    IF update # None /\ update.callback_query THEN processToolApproval(update)
    ELSE IF c.timeout_action = "allow" THEN Allow
    ELSE IF c.timeout_action = "deny"
         THEN Deny([text |-> "Auto-denied after timeout",
                    seconds |-> approvalTimeoutSeconds(c)])
    ELSE NoOpinion

\* waitForStopResponse / waitForSessionStartResponse: timeout * 1000
waitTimeoutMs(kind) ==
    IF kind = "Stop" THEN env.AFK_STOP_TIMEOUT * 1000
    ELSE env.AFK_SESSIONSTART_TIMEOUT * 1000

(* ------------------------------ state ---------------------------------- *)
TimeoutActions == {"deny", "allow", "wait"}

\* the local variables of a hook invocation before it has started
InitHook(kind) ==
    [hook |-> kind,
     pc |-> "entry",
     \* which wait of the hook is running: "first" or "text" (after Reply)
     phase |-> "first",
     \* handleSessionStart: the mode read at entry, while the session is tracked
     mode |-> "",
     \* distributedTelegramPoll
     timeoutMs |-> 0, startTime |-> 0, lastUpdateId |-> 0,
     lastAbandonedCheck |-> 0, pollDelayMs |-> InitialPollDelayMs,
     consecutiveEmptyPolls |-> 0, tickStart |-> 0,
     updates |-> <<>>, existingIds |-> {}, newUpdates |-> <<>>,
     wakeAt |-> 0, sweepNow |-> 0, abandoned |-> {}, target |-> "", sessions |-> None,
     \* atomicClaimMessage
     attempt |-> 0, acquired |-> FALSE, processed |-> {}, claimed |-> None,
     \* outcome of the poll: "running", "message", "cancelled", "timeout", or
     \* "unconfigured" when it threw before its loop
     poll |-> "running", update |-> None]

\* the registry as earlier invocations left it: a stale entry of a session
\* whose hook is gone, a fresh entry for s1, none for s2
InitSessions ==
    [s \in Sessions |->
        IF s = OldSession
        THEN [lastActivity |-> Epoch - AbandonedTimeoutSeconds * 1000 - ClockStep]
        ELSE IF s = sessionOf("h1") THEN [lastActivity |-> Epoch]
        ELSE None]

InitQueues ==
    /\ now = Epoch
    /\ tgUpdates = <<>>
    /\ globalQueue = <<>>
    /\ processedQueue = <<>>
    /\ lockFile = NoFile
    /\ activeSessions = InitSessions
    /\ stdout = [p \in Procs |-> NoOpinion]
    /\ tgSent = [p \in Procs |-> <<>>]
    /\ settingsAllow = {}

\* the files, with waits of one second
InitFiles ==
    /\ InitQueues
    /\ env = [AFK_STOP_TIMEOUT |-> 1, AFK_SESSIONSTART_TIMEOUT |-> 1,
              TELEGRAM_BOT_TOKEN |-> ""]

\* two Stop hooks of two sessions wait at the same time
Init ==
    /\ InitFiles
    /\ replyLock = None
    /\ modeFile = "local"
    /\ sessionModeFile = [s \in Sessions |-> NoFile]
    /\ projectModeFile = NoFile
    /\ cfg = [timeout_seconds |-> 1, timeout_action |-> "deny", telegram_bot_token |-> "token"]
    /\ hk = [p \in Procs |-> InitHook("Stop")]

\* one PermissionRequest hook; any mode files, any timeout action
InitApproval ==
    /\ InitFiles
    /\ replyLock = None
    /\ modeFile \in Modes
    /\ sessionModeFile \in {[s \in Sessions |-> IF s = sessionOf("h1") THEN m ELSE NoFile] :
                                m \in Modes \cup {NoFile}}
    /\ projectModeFile \in Modes \cup {NoFile}
    /\ cfg \in [timeout_seconds : {1}, timeout_action : TimeoutActions,
              telegram_bot_token : {"token"}]
    /\ hk = [p \in Procs |-> IF p = "h1" THEN InitHook("PermissionRequest")
                                         ELSE [InitHook("Stop") EXCEPT !.pc = "done"]]

\* two Stop hooks of two sessions in remote mode; the operator will use the
\* Reply buttons
InitReply ==
    /\ InitFiles
    /\ replyLock = None
    /\ modeFile = "remote"
    /\ sessionModeFile = [s \in Sessions |-> NoFile]
    /\ projectModeFile = NoFile
    /\ cfg = [timeout_seconds |-> 1, timeout_action |-> "deny", telegram_bot_token |-> "token"]
    /\ hk = [p \in Procs |-> InitHook("Stop")]

\* one Stop hook in remote mode; the reply lock is as earlier invocations left
\* it: absent, or held by session s2 and bound to the notification of s2
InitReplySolo ==
    /\ InitFiles
    /\ replyLock \in {None, [sessionId |-> "s2", messageId |-> "s2"]}
    /\ modeFile = "remote"
    /\ sessionModeFile = [s \in Sessions |-> NoFile]
    /\ projectModeFile = NoFile
    /\ cfg = [timeout_seconds |-> 1, timeout_action |-> "deny", telegram_bot_token |-> "token"]
    /\ hk = [p \in Procs |-> IF p = "h1" THEN InitHook("Stop")
                                         ELSE [InitHook("Stop") EXCEPT !.pc = "done"]]

\* one PermissionRequest hook in remote mode; any timeout action
InitDecision ==
    /\ InitFiles
    /\ replyLock = None
    /\ modeFile = "remote"
    /\ sessionModeFile = [s \in Sessions |-> NoFile]
    /\ projectModeFile = NoFile
    /\ cfg \in [timeout_seconds : {1}, timeout_action : TimeoutActions,
              telegram_bot_token : {"token"}]
    /\ hk = [p \in Procs |-> IF p = "h1" THEN InitHook("PermissionRequest")
                                         ELSE [InitHook("Stop") EXCEPT !.pc = "done"]]

\* one Stop or SessionStart hook; any mode files
InitModes ==
    /\ InitFiles
    /\ replyLock = None
    /\ modeFile \in Modes
    /\ sessionModeFile \in {[s \in Sessions |-> IF s = sessionOf("h1") THEN m ELSE NoFile] :
                                m \in Modes \cup {NoFile}}
    /\ projectModeFile \in Modes \cup {NoFile}
    /\ cfg = [timeout_seconds |-> 1, timeout_action |-> "deny", telegram_bot_token |-> "token"]
    /\ \E kind \in {"Stop", "SessionStart"} :
          hk = [p \in Procs |-> IF p = "h1" THEN InitHook(kind)
                                           ELSE [InitHook(kind) EXCEPT !.pc = "done"]]

\* one Stop hook, started in any global mode
InitStop ==
    /\ InitFiles
    /\ replyLock = None
    /\ modeFile \in Modes
    /\ sessionModeFile = [s \in Sessions |-> NoFile]
    /\ projectModeFile = NoFile
    /\ cfg = [timeout_seconds |-> 1, timeout_action |-> "deny", telegram_bot_token |-> "token"]
    /\ hk = [p \in Procs |-> IF p = "h1" THEN InitHook("Stop")
                                         ELSE [InitHook("Stop") EXCEPT !.pc = "done"]]

Upd(p, r) == hk' = [hk EXCEPT ![p] = r]

\* the function returned or threw: its locals are gone
Exit(p, pc, poll, update) ==
    Upd(p, [InitHook(hk[p].hook) EXCEPT !.pc = pc, !.phase = hk[p].phase,
                                        !.poll = poll, !.update = update])

(* ------------------------------ environment ---------------------------- *)
\* the operator presses a button or sends a text message.  Telegram keeps an
\* update until it is fetched, so a send is observed only by a getUpdates
\* response: it is scheduled while some request is pending
OperatorSends ==
    /\ Len(tgUpdates) < MaxUpdates
    /\ \E p \in Procs : hk[p].pc = "fetch"
    /\ \E u \in Payloads : tgUpdates' = Append(tgUpdates, u)
    /\ UNCHANGED <<now, modeFile, sessionModeFile, projectModeFile, cfg, env,
                   globalQueue, processedQueue, lockFile, activeSessions, replyLock, hk, stdout, tgSent, settingsAllow>>

\* the operator presses a button of the approval request
OperatorDecides ==
    /\ Len(tgUpdates) < MaxUpdates
    /\ \E p \in Procs : hk[p].pc = "fetch"
    /\ \E u \in DecisionPayloads : tgUpdates' = Append(tgUpdates, u)
    /\ UNCHANGED <<now, modeFile, sessionModeFile, projectModeFile, cfg, env,
                   globalQueue, processedQueue, lockFile, activeSessions, replyLock, hk, stdout, tgSent, settingsAllow>>

\* the operator uses the Reply buttons and answers in free text
OperatorReplies ==
    /\ Len(tgUpdates) < MaxUpdates
    /\ \E p \in Procs : hk[p].pc = "fetch"
    /\ \E u \in ReplyPayloads : tgUpdates' = Append(tgUpdates, u)
    /\ UNCHANGED <<now, modeFile, sessionModeFile, projectModeFile, cfg, env,
                   globalQueue, processedQueue, lockFile, activeSessions, replyLock, hk, stdout, tgSent, settingsAllow>>

\* the operator answers a Stop notification: Reply, Finish, or free text
OperatorAnswers ==
    /\ Len(tgUpdates) < MaxUpdates
    /\ \E p \in Procs : hk[p].pc = "fetch"
    /\ \E u \in StopPayloads : tgUpdates' = Append(tgUpdates, u)
    /\ UNCHANGED <<now, modeFile, sessionModeFile, projectModeFile, cfg, env,
                   globalQueue, processedQueue, lockFile, activeSessions, replyLock, hk, stdout, tgSent, settingsAllow>>

\* the operator answers the approval requests or writes to the chat
OperatorResponds ==
    /\ Len(tgUpdates) < MaxUpdates
    /\ \E p \in Procs : hk[p].pc = "fetch"
    /\ \E u \in ApprovalPayloads : tgUpdates' = Append(tgUpdates, u)
    /\ UNCHANGED <<now, modeFile, sessionModeFile, projectModeFile, cfg, env,
                   globalQueue, processedQueue, lockFile, activeSessions, replyLock, hk, stdout, tgSent, settingsAllow>>

\* `afk on|off|readonly` rewrites the global mode file.  The file is read at
\* hook entry and at the start of a tick only, so a rewrite is scheduled
\* right before such a read
SwitchMode ==
    /\ \E m \in Modes \ {modeFile} : modeFile' = m
    /\ \E p \in Procs : hk[p].pc \in {"entry", "loop"}
    /\ UNCHANGED <<now, sessionModeFile, projectModeFile, cfg, env, tgUpdates,
                   globalQueue, processedQueue, lockFile, activeSessions, replyLock, hk, stdout, tgSent, settingsAllow>>

\* time passes while some process is suspended in an await (send, fetch,
\* sleep); the synchronous code between two awaits takes no model time
Awaiting(p) ==
    hk[p].pc \in {"sending", "sending_ro", "fetch", "sleep", "answering", "editing"}

AdvanceClock ==
    /\ now < MaxClock
    /\ \E p \in Procs : Awaiting(p)
    /\ now' = now + ClockStep
    /\ UNCHANGED <<modeFile, sessionModeFile, projectModeFile, cfg, env, tgUpdates,
                   globalQueue, processedQueue, lockFile, activeSessions, replyLock, hk, stdout, tgSent, settingsAllow>>

\* the clock of the runs followed to their end: a timer that was set always
\* fires, also when it was set at MaxClock
AdvanceClockLive ==
    /\ \/ now < MaxClock /\ \E p \in Procs : Awaiting(p)
       \/ \E p \in Procs : hk[p].pc = "sleep" /\ now < hk[p].wakeAt
    /\ now' = now + ClockStep
    /\ UNCHANGED <<modeFile, sessionModeFile, projectModeFile, cfg, env, tgUpdates,
                   globalQueue, processedQueue, lockFile, activeSessions, replyLock, hk, stdout, tgSent, settingsAllow>>

\* the operator stays away for an hour while a hook waits
OperatorAway ==
    /\ now < MaxClock
    /\ \E p \in Procs : hk[p].pc \in {"fetch", "sleep"}
    /\ now' = now + DEFAULT_TIMEOUT * 1000
    /\ UNCHANGED <<modeFile, sessionModeFile, projectModeFile, cfg, env, tgUpdates,
                   globalQueue, processedQueue, lockFile, activeSessions, replyLock, hk, stdout, tgSent, settingsAllow>>

envVars == <<now, modeFile, sessionModeFile, projectModeFile, cfg, env, tgUpdates>>
queueFiles == <<globalQueue, processedQueue, lockFile>>

(* ------------------- hook entry (claude-hooks.js) ---------------------- *)
\* a permission hook that, like the Stop hook, stays out in local mode only
skipsInLocalOnly(mode) == mode = "local"

\* handlePermissionRequest: if (mode !== 'remote') return
skipsIntervention(mode) == mode # "remote"

\* a Stop / SessionStart hook that never takes the read-only branch
notifiesOnlyNever(mode) == FALSE

\* handleStop / handleSessionStart: if (mode === 'readonly') notify, return
notifiesOnly(mode) == mode = "readonly"

\* handlePermissionRequest / handleStop / handleSessionStart up to the first
\* await (Stop, PermissionRequest) or up to trackActiveSession (SessionStart)
HookEntry(p) ==
    /\ hk[p].pc = "entry"
    /\ LET mode == getEffectiveMode(sessionOf(p)) IN
       CASE hk[p].hook = "PermissionRequest" ->
              Upd(p, [hk[p] EXCEPT !.pc = IF skipsIntervention(mode) THEN "done"
                                          ELSE "sending"])
         [] hk[p].hook = "Stop" ->
              Upd(p, [hk[p] EXCEPT !.pc = IF mode = "local" THEN "done"
                                          ELSE IF notifiesOnly(mode) THEN "sending_ro"
                                          ELSE "sending"])
         [] OTHER ->
              Upd(p, [hk[p] EXCEPT !.pc = IF mode = "local" THEN "done" ELSE "track",
                                   !.mode = IF mode = "local" THEN "" ELSE mode])
    /\ UNCHANGED <<envVars, queueFiles, activeSessions, replyLock, stdout, tgSent, settingsAllow>>

\* trackActiveSession(sessionId, cwd): _loadActiveSessions, set the entry
TrackLoad(p) ==
    /\ hk[p].pc = "track"
    /\ Upd(p, [hk[p] EXCEPT
            !.sessions = [activeSessions EXCEPT ![sessionOf(p)] = [lastActivity |-> now]],
            !.pc = "track_save"])
    /\ UNCHANGED <<envVars, queueFiles, activeSessions, replyLock, stdout, tgSent, settingsAllow>>

\* trackActiveSession: _saveActiveSessions; then the notification is sent
TrackSave(p) ==
    /\ hk[p].pc = "track_save"
    /\ activeSessions' = hk[p].sessions
    /\ Upd(p, [hk[p] EXCEPT !.sessions = None, !.mode = "",
                            !.pc = IF notifiesOnly(hk[p].mode) THEN "sending_ro"
                                   ELSE "sending"])
    /\ UNCHANGED <<envVars, queueFiles, replyLock, stdout, tgSent, settingsAllow>>

\* the notification was sent; waitForApproval / waitForStopResponse start
\* distributedTelegramPoll, which initialises its locals
NotificationSent(p) ==
    /\ hk[p].pc \in {"sending", "sending_ro"}
    /\ IF ~tokenConfigured(cfgLoaded(cfg))
       THEN \* sendMessage returns null; distributedTelegramPoll throws before its loop
            /\ IF hk[p].pc = "sending_ro"
               THEN Upd(p, [hk[p] EXCEPT !.pc = "done"])
               ELSE Exit(p, "failed", "unconfigured", None)
            /\ tgSent' = tgSent
       ELSE /\ IF hk[p].pc = "sending_ro"
               THEN Upd(p, [hk[p] EXCEPT !.pc = "done"])
               ELSE Upd(p, [hk[p] EXCEPT
                        !.pc = "loop",
                        !.timeoutMs = IF hk[p].hook = "PermissionRequest"
                                      THEN approvalTimeoutMs(cfgLoaded(cfg))
                                      ELSE waitTimeoutMs(hk[p].hook),
                        !.startTime = now,
                        !.tickStart = now,
                        !.lastUpdateId = 0,
                        !.lastAbandonedCheck = 0,
                        !.pollDelayMs = InitialPollDelayMs,
                        !.consecutiveEmptyPolls = 0])
            /\ tgSent' = [tgSent EXCEPT ![p] =
                    Append(tgSent[p], [hook |-> hk[p].hook,
                                       readonly |-> hk[p].pc = "sending_ro"])]
    /\ UNCHANGED <<envVars, queueFiles, activeSessions, replyLock, stdout, settingsAllow>>

\* sendMessage rejected: the handler fails before any wait
NotificationFailed(p) ==
    /\ hk[p].pc \in {"sending", "sending_ro"}
    /\ tokenConfigured(cfgLoaded(cfg))
    /\ Upd(p, [hk[p] EXCEPT !.pc = "failed"])
    /\ UNCHANGED <<envVars, queueFiles, activeSessions, replyLock, stdout, tgSent, settingsAllow>>

(* ------------------- distributedTelegramPoll, one tick ----------------- *)
\* a loop that still runs the tick at which the elapsed time equals timeoutMs
withinTimeoutInclusive(elapsed, timeoutMs) == elapsed <= timeoutMs

\* while (Date.now() - startTime < timeoutMs)
withinTimeout(elapsed, timeoutMs) == elapsed < timeoutMs

\* loop condition, mode check, getUpdates request (queue.js 480-494)
TickStart(p) ==
    /\ hk[p].pc = "loop"
    /\ IF ~withinTimeout(now - hk[p].startTime, hk[p].timeoutMs)
       THEN \* throw new Error('Polling timeout'); no caller catches it
            Exit(p, "failed", "timeout", None)
       ELSE IF readMode(modeFile) = "local"
       THEN Exit(p, "returned", "cancelled", None)
       ELSE Upd(p, [hk[p] EXCEPT !.pc = "fetch", !.tickStart = now])
    /\ UNCHANGED <<envVars, queueFiles, activeSessions, replyLock, stdout, tgSent, settingsAllow>>

\* getUpdates resolved (queue.js 490-498)
FetchOk(p) ==
    /\ hk[p].pc = "fetch"
    /\ LET updates == getUpdates(hk[p].lastUpdateId + 1) IN
       IF Len(updates) > 0
       THEN Upd(p, [hk[p] EXCEPT
                !.updates = updates,
                !.lastUpdateId = maxUpdateId(updates),
                !.pc = "dedup_processed"])
       ELSE Upd(p, [hk[p] EXCEPT !.updates = updates, !.attempt = 0, !.pc = "lock"])
    /\ UNCHANGED <<envVars, queueFiles, activeSessions, replyLock, stdout, tgSent, settingsAllow>>

\* a poll whose catch block rethrows
FetchErrorAborts(p) ==
    /\ hk[p].pc = "fetch"
    /\ Exit(p, "failed", "error", None)
    /\ UNCHANGED <<envVars, queueFiles, activeSessions, replyLock, stdout, tgSent, settingsAllow>>

\* getUpdates rejected: catch, back off 500 ms (queue.js 554-558)
FetchError(p) ==
    /\ hk[p].pc = "fetch"
    /\ Upd(p, [hk[p] EXCEPT !.pc = "sleep", !.wakeAt = now + ErrorBackoffMs])
    /\ UNCHANGED <<envVars, queueFiles, activeSessions, replyLock, stdout, tgSent, settingsAllow>>

\* existingIds = getProcessedUpdateIds() (queue.js 501)
DedupReadProcessed(p) ==
    /\ hk[p].pc = "dedup_processed"
    /\ Upd(p, [hk[p] EXCEPT !.existingIds = getProcessedUpdateIds(processedQueue),
                            !.pc = "dedup_global"])
    /\ UNCHANGED <<envVars, queueFiles, activeSessions, replyLock, stdout, tgSent, settingsAllow>>

\* existingGlobalIds = getGlobalQueueUpdateIds(); newUpdates (queue.js 502-514)
DedupReadGlobal(p) ==
    /\ hk[p].pc = "dedup_global"
    /\ LET existingGlobalIds == getGlobalQueueUpdateIds(globalQueue)
           newUpdates == SelectSeq(hk[p].updates, LAMBDA u :
                             u.update_id \notin hk[p].existingIds
                             /\ u.update_id \notin existingGlobalIds) IN
       Upd(p, [hk[p] EXCEPT !.newUpdates = newUpdates, !.existingIds = {},
                            !.attempt = 0,
                            !.pc = IF Len(newUpdates) > 0 THEN "append" ELSE "lock"])
    /\ UNCHANGED <<envVars, queueFiles, activeSessions, replyLock, stdout, tgSent, settingsAllow>>

\* appendToGlobalQueue: one appendFileSync per update (queue.js 84-91)
appendToGlobalQueue(p) ==
    /\ hk[p].pc = "append"
    /\ globalQueue' = Append(globalQueue, Head(hk[p].newUpdates))
    /\ Upd(p, [hk[p] EXCEPT !.newUpdates = Tail(hk[p].newUpdates),
                            !.pc = IF Len(hk[p].newUpdates) > 1 THEN "append" ELSE "lock"])
    /\ UNCHANGED <<envVars, processedQueue, lockFile, activeSessions, replyLock, stdout, tgSent, settingsAllow>>

(* ------------------- atomicClaimMessage (queue.js 105-159) ------------- *)
\* one iteration of the acquisition loop: writeFileSync(lockFile, ..., 'wx').
\* On EEXIST the loop continues; when the attempts are used up the loop ends
\* and control reaches the statements after it (the `return null` inside the
\* loop body is never reached, both branches of the try leave the iteration).
LockAttempt(p) ==
    /\ hk[p].pc = "lock"
    /\ IF lockFile = NoFile
       THEN /\ lockFile' = p
            /\ Upd(p, [hk[p] EXCEPT !.acquired = TRUE, !.pc = "scan_processed"])
       ELSE /\ lockFile' = lockFile
            /\ Upd(p, [hk[p] EXCEPT
                    !.attempt = hk[p].attempt + 1,
                    !.acquired = FALSE,
                    !.pc = IF attemptsExhausted(hk[p].attempt + 1)
                           THEN "scan_processed" ELSE "lock"])
    /\ UNCHANGED <<envVars, globalQueue, processedQueue, activeSessions, replyLock, stdout, tgSent, settingsAllow>>

\* getMyMessages: processed = getProcessedUpdateIds() (queue.js 200)
ScanReadProcessed(p) ==
    /\ hk[p].pc = "scan_processed"
    /\ Upd(p, [hk[p] EXCEPT !.processed = getProcessedUpdateIds(processedQueue),
                            !.pc = "scan_global"])
    /\ UNCHANGED <<envVars, queueFiles, activeSessions, replyLock, stdout, tgSent, settingsAllow>>

\* getMyMessages: read global.jsonl, filter; pick myMessages[0] (queue.js 138-140, 204-223)
ScanReadGlobal(p) ==
    /\ hk[p].pc = "scan_global"
    /\ LET unprocessed == SelectSeq(linesRead(globalQueue), LAMBDA entry :
                              entry.update_id \notin hk[p].processed)
           scan == IF hk[p].hook # "PermissionRequest" /\ hk[p].phase = "text"
                   THEN scanWithLock(sessionOf(p), unprocessed, replyLock, <<>>)
                   ELSE [myMessages |-> getMyMessages(p, hk[p].processed, globalQueue),
                         lock |-> replyLock]
           myMessages == scan.myMessages IN
       /\ replyLock' = scan.lock
       /\ IF Len(myMessages) > 0
          THEN Upd(p, [hk[p] EXCEPT !.claimed = myMessages[1], !.processed = {},
                                    !.pc = "mark"])
          ELSE Upd(p, [hk[p] EXCEPT !.claimed = None, !.processed = {},
                                    !.pc = "unlock"])
    /\ UNCHANGED <<envVars, queueFiles, activeSessions, stdout, tgSent, settingsAllow>>

\* a marking that writes processed.jsonl anew with its one record
markUpdateAsProcessedRewrite(p) ==
    /\ hk[p].pc = "mark"
    /\ processedQueue' = <<[update_id |-> hk[p].claimed.update_id, processed_by |-> p]>>
    /\ Upd(p, [hk[p] EXCEPT !.pc = "unlock"])
    /\ UNCHANGED <<envVars, globalQueue, lockFile, activeSessions, replyLock, stdout, tgSent, settingsAllow>>

\* markUpdateAsProcessed(message.update_id, hookId) (queue.js 301-316);
\* initMessageQueue finds the files that the constructor has created
markUpdateAsProcessed(p) ==
    /\ hk[p].pc = "mark"
    /\ processedQueue' = Append(processedQueue,
            [update_id |-> hk[p].claimed.update_id, processed_by |-> p])
    /\ Upd(p, [hk[p] EXCEPT !.pc = "unlock"])
    /\ UNCHANGED <<envVars, globalQueue, lockFile, activeSessions, replyLock, stdout, tgSent, settingsAllow>>

\* markUpdateAsProcessed threw (appendFileSync failed): the catch block of
\* atomicClaimMessage logs and returns null (queue.js 146-148)
MarkError(p) ==
    /\ hk[p].pc = "mark"
    /\ Upd(p, [hk[p] EXCEPT !.claimed = None, !.pc = "unlock"])
    /\ UNCHANGED <<envVars, queueFiles, activeSessions, replyLock, stdout, tgSent, settingsAllow>>

\* a cleanup that runs on the path of a claimed message only
ReleaseLockOnSuccess(p) ==
    /\ hk[p].pc = "unlock"
    /\ lockFile' = IF hk[p].claimed # None THEN NoFile ELSE lockFile
    /\ IF hk[p].claimed # None
       THEN Exit(p, "returned", "message", hk[p].claimed)
       ELSE Upd(p, [hk[p] EXCEPT !.pc = "adapt", !.acquired = FALSE, !.attempt = 0])
    /\ UNCHANGED <<envVars, globalQueue, processedQueue, activeSessions, replyLock, stdout, tgSent, settingsAllow>>

\* finally: unlink the lock file if it exists; then return (queue.js 149-158,
\* 519-522)
ReleaseLock(p) ==
    /\ hk[p].pc = "unlock"
    /\ lockFile' = NoFile
    /\ IF hk[p].claimed # None
       THEN Exit(p, "returned", "message", hk[p].claimed)
       ELSE Upd(p, [hk[p] EXCEPT !.pc = "adapt", !.acquired = FALSE, !.attempt = 0])
    /\ UNCHANGED <<envVars, globalQueue, processedQueue, activeSessions, replyLock, stdout, tgSent, settingsAllow>>

(* ------------------- rest of the tick (queue.js 524-553) --------------- *)
\* adaptive delay; decide whether the abandoned-session sweep is due
AdaptDelay(p) ==
    /\ hk[p].pc = "adapt"
    /\ LET got == Len(hk[p].updates) > 0
           empties == IF got THEN 0 ELSE hk[p].consecutiveEmptyPolls + 1
           due == now - hk[p].lastAbandonedCheck > AbandonedCheckIntervalMs IN
       Upd(p, [hk[p] EXCEPT
            !.consecutiveEmptyPolls = empties,
            !.pollDelayMs = nextPollDelayMs(got, empties),
            !.updates = <<>>,
            !.sweepNow = IF due THEN now ELSE 0,
            !.abandoned = IF due THEN checkAbandonedSessions(activeSessions, now) ELSE {},
            !.pc = IF due THEN "sweep" ELSE "heartbeat"])
    /\ UNCHANGED <<envVars, queueFiles, activeSessions, replyLock, stdout, tgSent, settingsAllow>>

\* removeActiveSession(session.sessionId): _loadActiveSessions
SweepLoad(p) ==
    /\ hk[p].pc = "sweep"
    /\ IF hk[p].abandoned = {}
       THEN Upd(p, [hk[p] EXCEPT !.lastAbandonedCheck = hk[p].sweepNow,
                                 !.sweepNow = 0, !.pc = "heartbeat"])
       ELSE \E s \in hk[p].abandoned :
              IF activeSessions[s] # None
              THEN Upd(p, [hk[p] EXCEPT !.sessions = activeSessions, !.target = s,
                                        !.pc = "sweep_save"])
              ELSE Upd(p, [hk[p] EXCEPT !.abandoned = hk[p].abandoned \ {s}])
    /\ UNCHANGED <<envVars, queueFiles, activeSessions, replyLock, stdout, tgSent, settingsAllow>>

\* removeActiveSession: delete sessions[sessionId]; _saveActiveSessions
SweepSave(p) ==
    /\ hk[p].pc = "sweep_save"
    /\ activeSessions' = [hk[p].sessions EXCEPT ![hk[p].target] = None]
    /\ Upd(p, [hk[p] EXCEPT !.abandoned = hk[p].abandoned \ {hk[p].target},
                            !.sessions = None, !.target = "", !.pc = "sweep"])
    /\ UNCHANGED <<envVars, queueFiles, replyLock, stdout, tgSent, settingsAllow>>

\* updateSessionActivity(sessionId): _loadActiveSessions
HeartbeatLoad(p) ==
    /\ hk[p].pc = "heartbeat"
    /\ IF activeSessions[sessionOf(p)] # None
       THEN Upd(p, [hk[p] EXCEPT
                !.sessions = [activeSessions EXCEPT
                                ![sessionOf(p)] = [lastActivity |-> now]],
                !.pc = "heartbeat_save"])
       ELSE Upd(p, [hk[p] EXCEPT !.pc = "sleep", !.wakeAt = now + hk[p].pollDelayMs])
    /\ UNCHANGED <<envVars, queueFiles, activeSessions, replyLock, stdout, tgSent, settingsAllow>>

\* updateSessionActivity: _saveActiveSessions; then setTimeout(pollDelayMs)
HeartbeatSave(p) ==
    /\ hk[p].pc = "heartbeat_save"
    /\ activeSessions' = hk[p].sessions
    /\ Upd(p, [hk[p] EXCEPT !.sessions = None, !.pc = "sleep",
                            !.wakeAt = now + hk[p].pollDelayMs])
    /\ UNCHANGED <<envVars, queueFiles, replyLock, stdout, tgSent, settingsAllow>>

\* the timer fired: next iteration of the while loop
WakeUp(p) ==
    /\ hk[p].pc = "sleep"
    /\ now >= hk[p].wakeAt
    /\ Upd(p, [hk[p] EXCEPT !.pc = "loop", !.wakeAt = 0])
    /\ UNCHANGED <<envVars, queueFiles, activeSessions, replyLock, stdout, tgSent, settingsAllow>>

(* ------------------- after the poll returned --------------------------- *)
\* waitForApproval 2144-2169 and handlePermissionRequest 1567-1570
ApprovalReturned(p) ==
    /\ hk[p].pc = "returned"
    /\ hk[p].hook = "PermissionRequest"
    /\ LET update == IF hk[p].update = None THEN None ELSE hk[p].update.update IN
       /\ stdout' = [stdout EXCEPT ![p] = approvalResult(cfgLoaded(cfg), update)]
       /\ settingsAllow' = allowedAfter(p, update, settingsAllow)
    /\ Upd(p, [hk[p] EXCEPT !.pc = "done"])
    /\ UNCHANGED <<envVars, queueFiles, activeSessions, replyLock, tgSent>>

\* waitForStopResponse / waitForSessionStartResponse: the first wait returned.
\* A reply button starts the reply flow; a finish button, a text message and
\* null all end in `return {}` (the Telegram calls of the finish branch are
\* wrapped in try/catch and change no state)
StopReturned(p) ==
    /\ hk[p].pc = "returned"
    /\ hk[p].hook # "PermissionRequest"
    /\ hk[p].phase = "first"
    /\ LET update == hk[p].update IN
       IF update # None /\ update.update.callback_query
                        /\ update.update.action = "reply"
       THEN Upd(p, [hk[p] EXCEPT !.pc = "answering"])
       ELSE Upd(p, [hk[p] EXCEPT !.pc = "done"])
    /\ UNCHANGED <<envVars, queueFiles, activeSessions, replyLock, stdout, tgSent, settingsAllow>>

\* answerCallbackQuery resolved (claude-hooks.js 2216-2222)
CallbackAnswered(p) ==
    /\ hk[p].pc = "answering"
    /\ Upd(p, [hk[p] EXCEPT !.pc = "clear_lock"])
    /\ UNCHANGED <<envVars, queueFiles, activeSessions, replyLock, stdout, tgSent, settingsAllow>>

\* this.sessionsService.clearReplyLock() (claude-hooks.js 2225)
clearReplyLock(p) ==
    /\ hk[p].pc = "clear_lock"
    /\ replyLock' = None
    /\ Upd(p, [hk[p] EXCEPT !.pc = "set_lock"])
    /\ UNCHANGED <<envVars, queueFiles, activeSessions, stdout, tgSent, settingsAllow>>

\* this.sessionsService.setReplyLock(sessionId, message_id) (claude-hooks.js
\* 2226-2229); then the editMessageReplyMarkup request
setReplyLock(p) ==
    /\ hk[p].pc = "set_lock"
    /\ replyLock' = [sessionId |-> sessionOf(p), messageId |-> hk[p].update.update.ref]
    /\ Upd(p, [hk[p] EXCEPT !.pc = "editing"])
    /\ UNCHANGED <<envVars, queueFiles, activeSessions, stdout, tgSent, settingsAllow>>

\* the second distributedTelegramPoll starts, with textMessageFilter
\* (claude-hooks.js 2290-2300)
startTextWait(p) ==
    [InitHook(hk[p].hook) EXCEPT
        !.pc = "loop", !.phase = "text",
        !.timeoutMs = waitTimeoutMs(hk[p].hook),
        !.startTime = now, !.tickStart = now]

\* answerCallbackQuery or editMessageReplyMarkup rejected, or the edit
\* resolved: the catch at 2255 logs, and the text wait starts.  When the
\* answer was rejected the lock statements were skipped
ReplyMarkupDone(p) ==
    /\ hk[p].pc \in {"answering", "editing"}
    /\ Upd(p, startTextWait(p))
    /\ UNCHANGED <<envVars, queueFiles, activeSessions, replyLock, stdout, tgSent, settingsAllow>>

\* the text wait returned (claude-hooks.js 2302-2346): a text message is
\* injected with exit code 2, null ends in `return {}`
TextReturned(p) ==
    /\ hk[p].pc = "returned"
    /\ hk[p].hook # "PermissionRequest"
    /\ hk[p].phase = "text"
    /\ stdout' = [stdout EXCEPT ![p] =
            IF hk[p].update # None /\ ~hk[p].update.update.callback_query
            THEN Continue ELSE NoOpinion]
    /\ Upd(p, [hk[p] EXCEPT !.pc = "done"])
    /\ UNCHANGED <<envVars, queueFiles, activeSessions, replyLock, tgSent, settingsAllow>>

\* the steps of the reply flow
ReplyStep(p) ==
    \/ StopReturned(p)
    \/ CallbackAnswered(p)
    \/ clearReplyLock(p)
    \/ setReplyLock(p)
    \/ ReplyMarkupDone(p)
    \/ TextReturned(p)

\* the steps every hook invocation shares
PollStep(p) ==
    \/ HookEntry(p)
    \/ NotificationSent(p)
    \/ NotificationFailed(p)
    \/ TickStart(p)
    \/ FetchOk(p)
    \/ FetchError(p)
    \/ DedupReadProcessed(p)
    \/ DedupReadGlobal(p)
    \/ appendToGlobalQueue(p)
    \/ LockAttempt(p)
    \/ ScanReadProcessed(p)
    \/ ScanReadGlobal(p)
    \/ markUpdateAsProcessed(p)
    \/ ReleaseLock(p)
    \/ AdaptDelay(p)
    \/ SweepLoad(p)
    \/ SweepSave(p)
    \/ HeartbeatLoad(p)
    \/ HeartbeatSave(p)
    \/ WakeUp(p)

Next ==
    \/ OperatorSends
    \/ SwitchMode
    \/ AdvanceClock
    \/ \E p \in Procs : PollStep(p) \/ StopReturned(p)

Spec == Init /\ [][Next]_vars

NextApproval ==
    \/ OperatorSends
    \/ SwitchMode
    \/ AdvanceClock
    \/ \E p \in Procs : PollStep(p) \/ ApprovalReturned(p)

SpecApproval == InitApproval /\ [][NextApproval]_vars

NextStop ==
    \/ OperatorSends
    \/ SwitchMode
    \/ AdvanceClockLive
    \/ \E p \in Procs : PollStep(p) \/ StopReturned(p)

\* Node's event loop runs every callback that is ready and timers fire: an
\* enabled step of a hook process is eventually taken, and time passes
SpecStopLive ==
    /\ InitStop
    /\ [][NextStop]_vars
    /\ WF_vars(AdvanceClockLive)
    /\ \A p \in Procs : WF_vars(PollStep(p))

NextReply ==
    \/ OperatorReplies
    \/ SwitchMode
    \/ AdvanceClock
    \/ \E p \in Procs : PollStep(p) \/ ReplyStep(p)

NextStopFlow ==
    \/ OperatorAnswers
    \/ SwitchMode
    \/ AdvanceClock
    \/ \E p \in Procs : PollStep(p) \/ ReplyStep(p)

SpecStopFlow == InitReplySolo /\ [][NextStopFlow]_vars

\* one Stop hook in remote mode; message-claim.lock is absent or was left by
\* a process that crashed inside atomicClaimMessage
InitStaleLock ==
    /\ now = Epoch
    /\ tgUpdates = <<>>
    /\ globalQueue = <<>>
    /\ processedQueue = <<>>
    /\ lockFile \in {NoFile, "crashed"}
    /\ activeSessions = InitSessions
    /\ stdout = [p \in Procs |-> NoOpinion]
    /\ tgSent = [p \in Procs |-> <<>>]
    /\ settingsAllow = {}
    /\ env = [AFK_STOP_TIMEOUT |-> 3, AFK_SESSIONSTART_TIMEOUT |-> 3,
              TELEGRAM_BOT_TOKEN |-> ""]
    /\ replyLock = None
    /\ modeFile = "remote"
    /\ sessionModeFile = [s \in Sessions |-> NoFile]
    /\ projectModeFile = NoFile
    /\ cfg = [timeout_seconds |-> 1, timeout_action |-> "deny", telegram_bot_token |-> "token"]
    /\ hk = [p \in Procs |-> IF p = "h1" THEN InitHook("Stop")
                                         ELSE [InitHook("Stop") EXCEPT !.pc = "done"]]

SpecStaleLockLive ==
    /\ InitStaleLock
    /\ [][NextStop]_vars
    /\ WF_vars(AdvanceClockLive)
    /\ \A p \in Procs : WF_vars(PollStep(p))

\* one Stop hook in remote mode, about to start, or in the loop of its poll
\* with k empty ticks behind it and its last sweep more than a minute ago
InitIdle ==
    /\ InitFiles
    /\ replyLock = None
    /\ modeFile = "remote"
    /\ sessionModeFile = [s \in Sessions |-> NoFile]
    /\ projectModeFile = NoFile
    /\ cfg = [timeout_seconds |-> 1, timeout_action |-> "deny", telegram_bot_token |-> "token"]
    /\ \E k \in 0 .. MaxEmptyPolls :
          hk = [p \in Procs |->
                  IF p # "h1" THEN [InitHook("Stop") EXCEPT !.pc = "done"]
                  ELSE IF k = 0 THEN InitHook("Stop")
                  ELSE [InitHook("Stop") EXCEPT
                          !.pc = "loop",
                          !.timeoutMs = waitTimeoutMs("Stop"),
                          !.startTime = Epoch,
                          !.tickStart = Epoch,
                          !.consecutiveEmptyPolls = k,
                          !.pollDelayMs = nextPollDelayMs(FALSE, k)]]

SpecIdle == InitIdle /\ [][NextStop]_vars

\* one Stop hook in remote mode that waits three seconds
InitBackoff ==
    /\ InitQueues
    /\ env = [AFK_STOP_TIMEOUT |-> 3, AFK_SESSIONSTART_TIMEOUT |-> 3,
              TELEGRAM_BOT_TOKEN |-> ""]
    /\ replyLock = None
    /\ modeFile = "remote"
    /\ sessionModeFile = [s \in Sessions |-> NoFile]
    /\ projectModeFile = NoFile
    /\ cfg = [timeout_seconds |-> 1, timeout_action |-> "deny", telegram_bot_token |-> "token"]
    /\ hk = [p \in Procs |-> IF p = "h1" THEN InitHook("Stop")
                                         ELSE [InitHook("Stop") EXCEPT !.pc = "done"]]

SpecBackoffLive ==
    /\ InitBackoff
    /\ [][NextStop]_vars
    /\ WF_vars(AdvanceClockLive)
    /\ \A p \in Procs : WF_vars(PollStep(p))

\* one PermissionRequest hook in remote mode; global.jsonl is empty or holds
\* a line that does not parse
InitMalformed ==
    /\ now = Epoch
    /\ tgUpdates = <<>>
    /\ globalQueue \in {<<>>, <<MalformedLine>>}
    /\ processedQueue = <<>>
    /\ lockFile = NoFile
    /\ activeSessions = InitSessions
    /\ stdout = [p \in Procs |-> NoOpinion]
    /\ tgSent = [p \in Procs |-> <<>>]
    /\ settingsAllow = {}
    /\ env = [AFK_STOP_TIMEOUT |-> 1, AFK_SESSIONSTART_TIMEOUT |-> 1,
              TELEGRAM_BOT_TOKEN |-> ""]
    /\ replyLock = None
    /\ modeFile = "remote"
    /\ sessionModeFile = [s \in Sessions |-> NoFile]
    /\ projectModeFile = NoFile
    /\ cfg = [timeout_seconds |-> 1, timeout_action |-> "deny", telegram_bot_token |-> "token"]
    /\ hk = [p \in Procs |-> IF p = "h1" THEN InitHook("PermissionRequest")
                                         ELSE [InitHook("Stop") EXCEPT !.pc = "done"]]

\* one Stop hook in remote mode of session s1; the registry holds entries that
\* earlier invocations left: the heartbeat of s0 stopped exactly the threshold
\* ago or longer, s1 has no entry, a fresh one or a stale one
InitSweep ==
    /\ now = Epoch
    /\ tgUpdates = <<>>
    /\ globalQueue = <<>>
    /\ processedQueue = <<>>
    /\ lockFile = NoFile
    /\ \E old \in {Epoch - AbandonedTimeoutSeconds * 1000,
                    Epoch - AbandonedTimeoutSeconds * 1000 - ClockStep},
          mine \in {None, [lastActivity |-> Epoch],
                    [lastActivity |-> Epoch - AbandonedTimeoutSeconds * 1000 - ClockStep]} :
          activeSessions = [s \in Sessions |->
                IF s = OldSession THEN [lastActivity |-> old]
                ELSE IF s = sessionOf("h1") THEN mine ELSE None]
    /\ stdout = [p \in Procs |-> NoOpinion]
    /\ tgSent = [p \in Procs |-> <<>>]
    /\ settingsAllow = {}
    /\ env = [AFK_STOP_TIMEOUT |-> 1, AFK_SESSIONSTART_TIMEOUT |-> 1,
              TELEGRAM_BOT_TOKEN |-> ""]
    /\ replyLock = None
    /\ modeFile = "remote"
    /\ sessionModeFile = [s \in Sessions |-> NoFile]
    /\ projectModeFile = NoFile
    /\ cfg = [timeout_seconds |-> 1, timeout_action |-> "deny", telegram_bot_token |-> "token"]
    /\ hk = [p \in Procs |-> IF p = "h1" THEN InitHook("Stop")
                                         ELSE [InitHook("Stop") EXCEPT !.pc = "done"]]

SpecSweep == InitSweep /\ [][NextStop]_vars

\* one PermissionRequest hook in remote mode, config.json has timeout_seconds 0
InitInfinite ==
    /\ InitFiles
    /\ replyLock = None
    /\ modeFile = "remote"
    /\ sessionModeFile = [s \in Sessions |-> NoFile]
    /\ projectModeFile = NoFile
    /\ cfg \in [timeout_seconds : {0}, timeout_action : TimeoutActions,
              telegram_bot_token : {"token"}]
    /\ hk = [p \in Procs |-> IF p = "h1" THEN InitHook("PermissionRequest")
                                         ELSE [InitHook("Stop") EXCEPT !.pc = "done"]]

NextInfinite ==
    \/ OperatorDecides
    \/ OperatorAway
    \/ SwitchMode
    \/ AdvanceClock
    \/ \E p \in Procs : PollStep(p) \/ ApprovalReturned(p)

SpecInfinite == InitInfinite /\ [][NextInfinite]_vars

\* one hook of any kind in remote or readonly mode; the bot token is set in
\* config.json, in the environment, or nowhere
InitUnconfigured ==
    /\ InitQueues
    /\ \E t \in {"", "token"} :
          env = [AFK_STOP_TIMEOUT |-> 1, AFK_SESSIONSTART_TIMEOUT |-> 1,
                 TELEGRAM_BOT_TOKEN |-> t]
    /\ replyLock = None
    /\ modeFile \in {"remote", "readonly"}
    /\ sessionModeFile = [s \in Sessions |-> NoFile]
    /\ projectModeFile = NoFile
    /\ cfg \in [timeout_seconds : {1}, timeout_action : {"deny"},
                telegram_bot_token : {"", "token"}]
    /\ \E kind \in {"PermissionRequest", "Stop", "SessionStart"} :
          hk = [p \in Procs |-> IF p = "h1" THEN InitHook(kind)
                                           ELSE [InitHook(kind) EXCEPT !.pc = "done"]]

NextUnconfigured ==
    \/ OperatorSends
    \/ SwitchMode
    \/ AdvanceClock
    \/ \E p \in Procs : \/ PollStep(p)
                        \/ ApprovalReturned(p)
                        \/ StopReturned(p)
                        \/ TrackLoad(p)
                        \/ TrackSave(p)

SpecUnconfigured == InitUnconfigured /\ [][NextUnconfigured]_vars

NextDecision ==
    \/ OperatorDecides
    \/ SwitchMode
    \/ AdvanceClock
    \/ \E p \in Procs : PollStep(p) \/ ApprovalReturned(p)

SpecDecision == InitDecision /\ [][NextDecision]_vars

SpecMalformed == InitMalformed /\ [][NextDecision]_vars

NextModes ==
    \/ OperatorSends
    \/ SwitchMode
    \/ AdvanceClock
    \/ \E p \in Procs : PollStep(p) \/ StopReturned(p) \/ TrackLoad(p) \/ TrackSave(p)

SpecModes == InitModes /\ [][NextModes]_vars

SpecReply == InitReply /\ [][NextReply]_vars

SpecReplySolo == InitReplySolo /\ [][NextReply]_vars

\* two PermissionRequest hooks of two sessions wait in remote mode
InitApprovals ==
    /\ InitFiles
    /\ replyLock = None
    /\ modeFile = "remote"
    /\ sessionModeFile = [s \in Sessions |-> NoFile]
    /\ projectModeFile = NoFile
    /\ cfg = [timeout_seconds |-> 1, timeout_action |-> "deny", telegram_bot_token |-> "token"]
    /\ hk = [p \in Procs |-> InitHook("PermissionRequest")]

NextApprovals ==
    \/ OperatorResponds
    \/ AdvanceClock
    \/ \E p \in Procs : PollStep(p) \/ ApprovalReturned(p)

SpecApprovals == InitApprovals /\ [][NextApprovals]_vars

\* a Stop hook of s1 and a SessionStart hook of s2 run in remote mode; the
\* registry holds a stale entry of s0 and the entry of s1
InitRegistry ==
    /\ InitFiles
    /\ replyLock = None
    /\ modeFile = "remote"
    /\ sessionModeFile = [s \in Sessions |-> NoFile]
    /\ projectModeFile = NoFile
    /\ cfg = [timeout_seconds |-> 1, timeout_action |-> "deny", telegram_bot_token |-> "token"]
    /\ hk = [p \in Procs |-> IF p = "h1" THEN InitHook("Stop")
                                         ELSE InitHook("SessionStart")]

SpecRegistry == InitRegistry /\ [][NextModes]_vars

\* one Stop hook in remote mode; global.jsonl is empty or holds a line that
\* does not parse
InitMalformedStop ==
    /\ now = Epoch
    /\ tgUpdates = <<>>
    /\ globalQueue \in {<<>>, <<MalformedLine>>}
    /\ processedQueue = <<>>
    /\ lockFile = NoFile
    /\ activeSessions = InitSessions
    /\ stdout = [p \in Procs |-> NoOpinion]
    /\ tgSent = [p \in Procs |-> <<>>]
    /\ settingsAllow = {}
    /\ env = [AFK_STOP_TIMEOUT |-> 1, AFK_SESSIONSTART_TIMEOUT |-> 1,
              TELEGRAM_BOT_TOKEN |-> ""]
    /\ replyLock = None
    /\ modeFile = "remote"
    /\ sessionModeFile = [s \in Sessions |-> NoFile]
    /\ projectModeFile = NoFile
    /\ cfg = [timeout_seconds |-> 1, timeout_action |-> "deny", telegram_bot_token |-> "token"]
    /\ hk = [p \in Procs |-> IF p = "h1" THEN InitHook("Stop")
                                         ELSE [InitHook("Stop") EXCEPT !.pc = "done"]]

SpecMalformedLive ==
    /\ InitMalformedStop
    /\ [][NextStop]_vars
    /\ WF_vars(AdvanceClockLive)
    /\ \A p \in Procs : WF_vars(PollStep(p))

\* a Stop hook polls while appends to processed.jsonl may fail
NextClaimFault ==
    \/ NextStop
    \/ \E p \in Procs : MarkError(p)

SpecClaimLive ==
    /\ InitBackoff
    /\ [][NextClaimFault]_vars
    /\ WF_vars(AdvanceClockLive)
    /\ \A p \in Procs : WF_vars(PollStep(p))

(* ======================= properties ==================================== *)
\* the scan-and-mark section of atomicClaimMessage
InClaimSection(p) == hk[p].pc \in {"scan_processed", "scan_global", "mark"}
\* atomicClaimMessage has picked an envelope and is returning it
Claiming(p) == hk[p].pc \in {"mark", "unlock"} /\ hk[p].claimed # None
\* distributedTelegramPoll returned an envelope to its caller
Returned(p) == hk[p].poll = "message"
\* a step of TickStart(p): p leaves the head of the loop
TickStarts(p) == hk[p].pc = "loop" /\ hk'[p].pc # "loop"
Unclaimed(entry) == entry.update_id \notin getProcessedUpdateIds(processedQueue)

\* C1: under every interleaving of concurrent atomicClaimMessage calls each
\* update_id is handed to at most one caller and processed.jsonl never holds
\* two records with the same update_id.
C1_NoDoubleClaim ==
    /\ \A i, j \in DOMAIN processedQueue :
          i # j => processedQueue[i].update_id # processedQueue[j].update_id
    /\ \A p, q \in Procs :
          (p # q /\ Claiming(p) /\ Claiming(q))
              => hk[p].claimed.update_id # hk[q].claimed.update_id

\* C2: of two pollers whose predicates both match an envelope, at most one
\* is returned that envelope by distributedTelegramPoll; the other times out,
\* keeps polling or is returned a different envelope.
C2_OneWinnerPerEnvelope ==
    \A p, q \in Procs :
        (p # q /\ Returned(p) /\ Returned(q)
              /\ filterFn(q, hk[p].update.update) /\ filterFn(p, hk[q].update.update))
            => hk[p].update.update_id # hk[q].update.update_id

\* C3: a caller that found the claim lock held on every one of its
\* acquisition attempts returns null: it neither scans the append log nor
\* writes a claim record.
C3_ContentionReturnsNull ==
    \A p \in Procs :
        attemptsExhausted(hk[p].attempt) => ~InClaimSection(p)

\* C4: at most one process at a time is inside the scan-and-mark section,
\* and a process inside it holds the claim lock (so the claim record is
\* written before the lock is released).
C4_MutualExclusion ==
    /\ Cardinality({p \in Procs : InClaimSection(p)}) <= 1
    /\ \A p \in Procs : InClaimSection(p) => lockFile = p

\* C5: no update_id appears in more than one envelope of global.jsonl.
C5_NoDuplicateEnvelope ==
    \A i, j \in DOMAIN globalQueue :
        i # j => globalQueue[i].update_id # globalQueue[j].update_id

\* C6: a tick (an iteration the loop condition admits) that starts while the
\* mode file reads local returns the cancellation value on that tick,
\* whatever the append log holds: it issues no fetch, claims nothing and does
\* not fail with the timeout.
C6_LocalModeCancels ==
    [][\A p \in Procs :
          (TickStarts(p) /\ now - hk[p].startTime < hk[p].timeoutMs
                         /\ modeFile = "local")
             => (hk'[p].pc = "returned" /\ hk'[p].poll = "cancelled"
                 /\ hk'[p].update = None
                 /\ globalQueue' = globalQueue /\ processedQueue' = processedQueue)]_vars

\* C6 witness: a poller was cancelled although an unclaimed envelope that its
\* predicate matches was in the append log.
C6_Witness ==
    \E p \in Procs :
        /\ hk[p].poll = "cancelled"
        /\ \E i \in DOMAIN globalQueue :
              Unclaimed(globalQueue[i]) /\ filterFn(p, globalQueue[i].update)

\* C7: with a remote source that never delivers a message the poll returns
\* no message; it fails with the timeout exactly at the first loop check at
\* which the elapsed time has reached timeoutMs, which is less than one tick
\* after timeoutMs; as long as the mode file does not read local at a tick it
\* does not return null, so the timeout and the cancellation are different
\* outcomes; and every poll ends.
C7_TimeoutOnEmptySource ==
    /\ [][\A p \in Procs :
            /\ (tgUpdates' = <<>>) => ~Returned(p)'
            /\ TickStarts(p) =>
                  /\ (hk'[p].poll = "timeout")
                        <=> (now - hk[p].startTime >= hk[p].timeoutMs)
                  /\ (hk'[p].poll = "timeout") => (hk'[p].pc = "failed"
                          /\ hk[p].tickStart - hk[p].startTime < hk[p].timeoutMs)
                  /\ (hk'[p].poll = "cancelled") => modeFile = "local"
            /\ (hk[p].poll = "running" /\ hk'[p].poll \in {"timeout", "cancelled"})
                  => TickStarts(p)]_vars
    /\ \A p \in Procs :
          (hk[p].pc = "loop") ~> (hk[p].poll # "running")

\* C7 witness: a poll failed with the timeout, after the wait had elapsed,
\* while the source had delivered nothing.
C7_Witness ==
    \E p \in Procs : hk[p].poll = "timeout" /\ hk[p].pc = "failed"
                     /\ tgUpdates = <<>> /\ now - Epoch >= 1000

\* C8: an approval with timeout_action = deny that receives no response ends
\* with the decision deny, carrying a message that cites the timeout, written
\* to the host.
C8_TimeoutDenies ==
    \A p \in Procs :
        (hk[p].hook = "PermissionRequest" /\ hk[p].poll = "timeout"
              /\ cfgLoaded(cfg).timeout_action = "deny")
            => (stdout[p].behavior = "deny"
                /\ stdout[p].message.seconds = cfgLoaded(cfg).timeout_seconds)

\* C9: an approval whose poll returned the cancellation value reports no
\* decision to the host; the timeout_action default is not applied to it.
C9_CancelIsNoOpinion ==
    \A p \in Procs :
        (hk[p].hook = "PermissionRequest" /\ hk[p].poll = "cancelled")
            => stdout[p] = NoOpinion

\* C10: a wait is cancelled only when the effective mode of the invocation
\* (session > project > global) reads local.
C10_CancelOnlyIfEffectiveLocal ==
    [][\A p \in Procs :
          (hk[p].poll = "running" /\ hk'[p].poll = "cancelled")
             => getEffectiveMode(sessionOf(p)) = "local"]_vars

(* ----------------------- reply lock ------------------------------------ *)
\* the update is a free-text message that is not a structured reply
PlainText(update) == ~update.callback_query /\ update.reply_to = NoReply
\* the lock is held by a session other than that of p
HeldByOther(p) == replyLock # None /\ replyLock.sessionId # sessionOf(p)
\* p runs its free-text wait
InTextWait(p) == hk[p].hook # "PermissionRequest" /\ hk[p].phase = "text"
\* a step of ScanReadGlobal(p)
Scans(p) == hk[p].pc = "scan_global" /\ hk'[p].pc # "scan_global"
\* the conditions (a), (b), (c) of the ownership check
OwnershipHolds(sessionId, message, lock) ==
    \/ lock = None
    \/ lock # None /\ lock.sessionId = sessionId
    \/ lock # None /\ message.reply_to # NoReply /\ message.reply_to = lock.messageId
\* the entries of the append log p's scan looks at
UnprocessedFor(p) ==
    {globalQueue[i] : i \in {j \in DOMAIN globalQueue :
                                globalQueue[j].update_id \notin hk[p].processed}}

\* C11: isMyMessage(sessionId, message) is true exactly when no lock is held,
\* or sessionId owns the lock, or the message replies to the message the lock
\* is bound to; and a free-text wait claims a text message exactly when that
\* check accepts it, so a plain text is accepted for the owner and rejected
\* for every other session.
C11_OwnershipCheck ==
    /\ [](\A sid \in Sessions : \A m \in {TextMessage, ReplyTo("s1"), ReplyTo("s2")} :
            /\ isMyMessage(sid, m, replyLock) <=> OwnershipHolds(sid, m, replyLock)
            /\ (replyLock # None /\ m = TextMessage)
                  => (isMyMessage(sid, m, replyLock) <=> sid = replyLock.sessionId))
    /\ [][\A p \in Procs : (Scans(p) /\ InTextWait(p)) =>
            /\ hk'[p].claimed # None
                  => OwnershipHolds(sessionOf(p), hk'[p].claimed.update, replyLock)
            /\ hk'[p].claimed = None
                  => \A e \in UnprocessedFor(p) :
                        e.update.callback_query
                        \/ ~OwnershipHolds(sessionOf(p), e.update, replyLock)]_vars

\* C11 witness: a free-text wait has scanned the log while another session
\* held the lock and left an unclaimed plain text message unclaimed.
C11_Witness ==
    \E p \in Procs :
        /\ InTextWait(p) /\ hk[p].pc = "unlock" /\ hk[p].claimed = None
        /\ HeldByOther(p)
        /\ \E i \in DOMAIN globalQueue :
              Unclaimed(globalQueue[i]) /\ PlainText(globalQueue[i].update)

\* C12: while a session holds the reply lock, a plain text message is never
\* claimed by a process of another session, whatever wait that process is in.
C12_TextGoesToLockOwner ==
    [][\A p \in Procs :
          (Scans(p) /\ hk'[p].claimed # None /\ HeldByOther(p))
             => ~PlainText(hk'[p].claimed.update)]_vars

\* C13: once the free-text wait of a session has ended (answer received,
\* cancelled or timed out) the reply lock is not held by that session.
C13_LockReleasedAfterTextWait ==
    \A p \in Procs :
        (InTextWait(p) /\ hk[p].pc \in {"done", "failed"})
            => ~(replyLock # None /\ replyLock.sessionId = sessionOf(p))

\* C14 as stated: a process never clears or overwrites a lock that another
\* session owns.
C14_OnlyOwnerMutatesLock ==
    [][\A p \in Procs :
          (hk'[p] # hk[p] /\ replyLock' # replyLock) => ~HeldByOther(p)]_vars

\* the first wait of p claimed the Reply button of p's own notification
OwnButton(p) ==
    hk[p].update # None /\ hk[p].update.update = Callback("reply", sessionOf(p))

\* C14 amended: the lock is replaced by the process of a session whose own
\* Reply button was claimed (it unlinks whatever lock exists, then writes a
\* lock naming its own session), and is otherwise cleared only by a free-text
\* wait at the moment its ownership check accepts a message; no process
\* writes a lock naming another session.
C14_TakeoverOrAccept ==
    [][replyLock' # replyLock =>
          \E p \in Procs :
              \/ hk[p].pc = "clear_lock" /\ OwnButton(p) /\ replyLock' = None
              \/ /\ hk[p].pc = "set_lock" /\ OwnButton(p)
                 /\ replyLock' = [sessionId |-> sessionOf(p),
                                  messageId |-> sessionOf(p)]
              \/ /\ Scans(p) /\ InTextWait(p) /\ replyLock' = None
                 /\ hk'[p].claimed # None
                 /\ OwnershipHolds(sessionOf(p), hk'[p].claimed.update, replyLock)]_vars

\* C14 witness: a session took the lock over after its Reply button.
C14_Witness ==
    \E p \in Procs : hk[p].pc = "editing" /\ replyLock # None
                     /\ replyLock.sessionId = sessionOf(p)

(* ----------------------- modes ----------------------------------------- *)
\* the three-level hierarchy: the highest level that is set decides
Hier(sessionId) ==
    IF sessionModeFile[sessionId] \in Modes THEN sessionModeFile[sessionId]
    ELSE IF projectModeFile \in Modes THEN projectModeFile
    ELSE IF modeFile \in Modes THEN modeFile
    ELSE "local"
\* a step of HookEntry(p)
Enters(p) == hk[p].pc = "entry" /\ hk'[p].pc # "entry"
\* p is inside distributedTelegramPoll or past it
Polling(p) ==
    hk[p].pc \notin {"entry", "track", "track_save", "sending", "sending_ro",
                     "done", "failed"}
    \/ hk[p].poll # "running"

\* C15: getEffectiveMode returns the session mode if set, else the project
\* mode if set, else the global mode, and the hooks act on that mode.
C15_ModeHierarchy ==
    /\ [](\A sid \in Sessions : getEffectiveMode(sid) = Hier(sid))
    /\ [][\A p \in Procs : Enters(p) =>
            ((hk'[p].pc = "done") <=> (Hier(sessionOf(p)) = "local"))]_vars

\* C15 witness: a hook acted on a session mode that differs from the project
\* mode set below it.
C15_Witness ==
    /\ sessionModeFile["s1"] = "readonly" /\ projectModeFile = "remote"
    /\ hk["h1"].pc = "sending_ro"

\* C17: outside remote mode the permission hook returns at once: it posts no
\* approval request, never starts the poll and writes no decision.
C17_NoInterventionOutsideRemote ==
    /\ [][\A p \in Procs :
            /\ (Enters(p) /\ hk[p].hook = "PermissionRequest"
                          /\ Hier(sessionOf(p)) # "remote")
                  => (hk'[p].pc = "done" /\ tgSent' = tgSent /\ stdout' = stdout)
            /\ hk[p].pc = "done" => hk'[p] = hk[p] /\ stdout'[p] = stdout[p]
                                     /\ tgSent'[p] = tgSent[p]]_vars
    /\ [](\A p \in Procs :
            (hk[p].hook = "PermissionRequest" /\ tgSent[p] = <<>>)
                => (stdout[p] = NoOpinion /\ ~Polling(p)))

\* C17 witness: a permission hook in read-only mode has returned without a
\* request and without a decision.
C17_Witness ==
    /\ hk["h1"].hook = "PermissionRequest" /\ hk["h1"].pc = "done"
    /\ sessionModeFile["s1"] = "readonly"
    /\ tgSent["h1"] = <<>> /\ stdout["h1"] = NoOpinion

Decides(p) ==
    /\ hk[p].hook = "PermissionRequest"
    /\ hk[p].pc = "returned" /\ hk'[p].pc = "done"
    /\ hk[p].update # None /\ hk[p].update.update.callback_query

BacksOff(p) == hk[p].pc = "fetch" /\ hk'[p].pc = "sleep"

\* C19: a rejected getUpdates request does not end the wait: the poll stays
\* running and sleeps for the error back-off, after which the loop condition
\* is evaluated again; the poll only ever ends with a claimed message, with
\* the cancellation or with the timeout, and never at a pending request.
C19_FetchFailureBacksOff ==
    /\ [][\A p \in Procs :
            /\ BacksOff(p) => /\ hk'[p].poll = "running"
                              /\ hk'[p].wakeAt = now + ErrorBackoffMs
                              /\ stdout' = stdout
            /\ (hk[p].pc = "fetch" /\ hk'[p].pc # "fetch")
                  => /\ hk'[p].pc \in {"sleep", "dedup_processed", "lock"}
                     /\ hk'[p].poll = "running"]_vars
    /\ [](\A p \in Procs :
            hk[p].poll \in {"running", "message", "cancelled", "timeout"})
    /\ \A p \in Procs :
          (hk[p].pc = "sleep" /\ hk[p].wakeAt = hk[p].tickStart + ErrorBackoffMs)
              ~> (hk[p].pc = "loop")

\* C19 witness: on a tick after the first second the request was rejected and
\* the poll sleeps for the error back-off.
C19_Witness ==
    /\ hk["h1"].pc = "sleep" /\ hk["h1"].poll = "running"
    /\ hk["h1"].tickStart > Epoch
    /\ hk["h1"].wakeAt = hk["h1"].tickStart + ErrorBackoffMs

(* ----------------------- malformed lines ------------------------------- *)
\* the well-formed entries of global.jsonl that p has not seen processed and
\* that its filter accepts
MatchingEnvelopes(p) ==
    SelectSeq(getAllMessages(globalQueue), LAMBDA entry :
        entry.update_id \notin hk[p].processed /\ filterFn(p, entry.update))

\* C20: a line of global.jsonl that does not parse is skipped: when the scan
\* of atomicClaimMessage reads the file, every well-formed unprocessed entry
\* that the filter accepts is seen, wherever the malformed line lies, and the
\* first of them is claimed.
C20_MalformedLineSkipped ==
    [][\A p \in Procs :
          (hk[p].pc = "scan_global" /\ hk'[p].pc # "scan_global"
                /\ MatchingEnvelopes(p) # <<>>)
              => hk'[p].claimed = Head(MatchingEnvelopes(p))]_vars

(* ----------------------- session registry ----------------------------- *)
\* the heartbeat of s stopped longer ago than the threshold
HeartbeatStopped(s) ==
    /\ activeSessions[s] # None
    /\ now - activeSessions[s].lastActivity > AbandonedTimeoutSeconds * 1000

\* the step of the tick that runs checkAbandonedSessions
Sweeps(p) == hk[p].pc = "adapt" /\ hk'[p].pc = "sweep"

\* C21: the sweep lists a session exactly when the time since its last
\* heartbeat exceeds the threshold: a session whose heartbeat stopped longer
\* ago is in the list of the sweep, a session whose last heartbeat lies within
\* the threshold (the threshold itself included) is not, and no session is
\* listed at any other step.
C21_ListedIffHeartbeatStopped ==
    [][\A p \in Procs :
          /\ Sweeps(p) =>
                \A s \in Sessions : (s \in hk'[p].abandoned) <=> HeartbeatStopped(s)
          /\ ~Sweeps(p) => hk'[p].abandoned \subseteq hk[p].abandoned]_vars

\* C21 witness: a sweep listed s1, whose heartbeat stopped longer ago than the
\* threshold, and not s0, whose heartbeat stopped exactly the threshold ago.
C21_Witness ==
    /\ hk["h1"].pc = "sweep"
    /\ hk["h1"].abandoned = {"s1"}
    /\ activeSessions[OldSession] # None
    /\ now - activeSessions[OldSession].lastActivity = AbandonedTimeoutSeconds * 1000

\* p is inside the loop of distributedTelegramPoll
InPoll(p) ==
    /\ hk[p].poll = "running"
    /\ hk[p].pc \in {"loop", "fetch", "dedup_processed", "dedup_global", "append",
                     "lock", "scan_processed", "scan_global", "mark", "unlock",
                     "adapt", "sweep", "sweep_save", "heartbeat", "heartbeat_save",
                     "sleep"}

\* C22: while a hook polls for its session, no sweep lists that session as
\* abandoned and its registry entry is not removed.
C22_PollingSessionNotAbandoned ==
    /\ [](\A p, q \in Procs : InPoll(p) => sessionOf(p) \notin hk[q].abandoned)
    /\ [][\A p \in Procs :
            (InPoll(p) /\ activeSessions[sessionOf(p)] # None)
                => activeSessions'[sessionOf(p)] # None]_vars

\* a tick of p ends without returning: the poll goes to sleep
TickEnds(p) == hk[p].pc # "sleep" /\ hk'[p].pc = "sleep"

\* C23: on every tick that does not return, the tick with a rejected fetch
\* included, the registry entry of the poller's session carries the current
\* time as its last heartbeat when the tick ends.
C23_HeartbeatEveryTick ==
    [][\A p \in Procs :
          (TickEnds(p) /\ activeSessions[sessionOf(p)] # None)
              => /\ activeSessions'[sessionOf(p)] # None
                 /\ activeSessions'[sessionOf(p)].lastActivity = now]_vars

\* the SessionStart invocation p registered its session, waited and completed
CompletedTracked(p) ==
    /\ hk[p].hook = "SessionStart"
    /\ hk[p].pc \in {"done", "failed"}
    /\ hk[p].poll \in {"message", "cancelled", "timeout"}

\* C24: the registry entry that a hook invocation creates when it begins is
\* deleted when the invocation completes: once the invocation has ended, by a
\* claimed message, the timeout or the cancellation, no entry of its session
\* remains in the registry.
C24_EntryDeletedOnCompletion ==
    \A p \in Procs : CompletedTracked(p) => activeSessions[sessionOf(p)] = None

(* ----------------------- unbounded approval wait ---------------------- *)
\* C25: with timeout_seconds = 0 in the configuration the approval wait is
\* unbounded: the poll of a permission request never ends with the timeout.
C25_ZeroMeansInfinite ==
    \A p \in Procs :
        (hk[p].hook = "PermissionRequest" /\ cfg.timeout_seconds = 0)
            => hk[p].poll # "timeout"

(* ----------------------- missing credentials --------------------------- *)
\* no bot token in config.json and none in the environment
NoToken == cfg.telegram_bot_token = "" /\ env.TELEGRAM_BOT_TOKEN = ""

\* C26: without a bot token the interaction fails before any polling starts:
\* no hook enters the poll loop, so no getUpdates request is pending, nothing
\* is sent, appended to the queue or claimed, the claim lock is never taken,
\* and the registry changes only by the registration of a SessionStart hook,
\* never by a heartbeat; a hook that reaches its wait fails there.
C26_FailsFastWithoutToken ==
    /\ [](NoToken =>
            /\ globalQueue = <<>> /\ processedQueue = <<>> /\ lockFile = NoFile
            /\ \A p \in Procs :
                  /\ ~InPoll(p)
                  /\ hk[p].poll \in {"running", "unconfigured"}
                  /\ hk[p].poll = "unconfigured" => hk[p].pc = "failed"
                  /\ tgSent[p] = <<>>
                  /\ stdout[p] = NoOpinion)
    /\ [][NoToken =>
            /\ activeSessions' # activeSessions
                  => \E p \in Procs : hk[p].pc = "track_save"
            /\ \A p \in Procs :
                  (hk[p].pc = "sending" /\ hk'[p].pc # "sending")
                      => hk'[p].poll = "unconfigured"]_vars

\* C26 witness: without a token a hook in remote mode reached its wait and
\* failed there.
C26_Witness ==
    /\ NoToken
    /\ hk["h1"].pc = "failed" /\ hk["h1"].poll = "unconfigured"

(* ----------------------- Stop interaction ------------------------------ *)
\* the first wait of p claimed the button `tag` of p's notification
FirstClaimed(p, tag) ==
    /\ hk[p].phase = "first" /\ hk[p].poll = "message"
    /\ hk[p].update.update = Callback(tag, sessionOf(p))

\* C27: a Stop interaction ends as reply, finish or abandoned, and in no other
\* way: a first wait that ends with a message has claimed the Reply or the
\* Finish button; Finish ends the hook without continuing the host; Reply
\* leads to the free-text wait, which is entered in no other way and claims
\* only messages the reply-lock check accepts; and the host is told to
\* continue only after the free-text wait has claimed a text message.
C27_StopInteraction ==
    /\ [](\A p \in Procs :
            /\ (hk[p].hook = "Stop" /\ hk[p].phase = "first" /\ hk[p].poll = "message")
                  => (FirstClaimed(p, "reply") \/ FirstClaimed(p, "finish"))
            /\ stdout[p] = Continue
                  => /\ InTextWait(p) /\ hk[p].pc = "done" /\ hk[p].poll = "message"
                     /\ ~hk[p].update.update.callback_query
            /\ stdout[p] \in {NoOpinion, Continue})
    /\ [][\A p \in Procs :
            /\ (FirstClaimed(p, "finish") /\ hk'[p] # hk[p])
                  => (hk'[p].pc = "done" /\ stdout'[p] = NoOpinion)
            /\ (FirstClaimed(p, "reply") /\ hk[p].pc = "returned" /\ hk'[p] # hk[p])
                  => hk'[p].pc = "answering"
            /\ (hk[p].pc \in {"answering", "editing"} /\ hk'[p] # hk[p])
                  => \/ hk'[p].pc = "clear_lock"
                     \/ hk'[p].pc = "loop" /\ hk'[p].phase = "text"
            /\ (hk[p].phase = "first" /\ hk'[p].phase = "text")
                  => hk[p].pc \in {"answering", "editing"}
            /\ (Scans(p) /\ InTextWait(p) /\ hk'[p].claimed # None)
                  => /\ ~hk'[p].claimed.update.callback_query
                     /\ OwnershipHolds(sessionOf(p), hk'[p].claimed.update, replyLock)]_vars

\* C28: a Stop or SessionStart wait that has not received its Reply click
\* never claims a free-text message, and a hook that has claimed a free-text
\* message and ended has told the host to continue with it.
C28_TextOnlyAfterReply ==
    /\ [][\A p \in Procs :
            (Scans(p) /\ hk[p].hook # "PermissionRequest" /\ hk[p].phase = "first"
                  /\ hk'[p].claimed # None)
                => hk'[p].claimed.update.callback_query]_vars
    /\ [](\A p \in Procs :
            (hk[p].hook # "PermissionRequest" /\ hk[p].pc = "done"
                  /\ hk[p].poll = "message" /\ ~hk[p].update.update.callback_query)
                => stdout[p] = Continue)

(* ----------------------- bounded lock wait ----------------------------- *)
\* C29: a claim lock that another process holds without end does not block a
\* poller: the acquisition loop makes at most maxAttempts attempts, each
\* failed attempt counts, after the last one atomicClaimMessage goes on and
\* returns, and the poller reaches the end of its tick or returns a message.
C29_BoundedLockWait ==
    /\ [](\A p \in Procs : hk[p].attempt <= maxAttempts)
    /\ [][\A p \in Procs :
            (hk[p].pc = "lock" /\ hk'[p] # hk[p])
                => \/ hk'[p].pc = "scan_processed"
                   \/ /\ hk'[p].pc = "lock"
                      /\ hk'[p].attempt = hk[p].attempt + 1
                      /\ hk'[p].attempt < maxAttempts]_vars
    /\ \A p \in Procs :
          (hk[p].pc = "lock") ~> (hk[p].pc \in {"sleep", "returned"})

\* C29 witness: the lock left by the crashed process was found on every
\* attempt and the poller has left the acquisition loop.
C29_Witness ==
    /\ lockFile = "crashed"
    /\ hk["h1"].pc = "scan_processed"
    /\ ~hk["h1"].acquired
    /\ hk["h1"].attempt = maxAttempts

(* ----------------------- adaptive delay -------------------------------- *)
\* the step of the tick that chooses the next delay
Adapts(p) == hk[p].pc = "adapt" /\ hk'[p].pc # "adapt"

\* C30: after an unsuccessful claim the delay is 50 ms on a tick whose fetch
\* returned a message and min(500, 50 + 50 k) ms on the k-th consecutive
\* empty tick; it stays within 50 .. 500 ms, does not decrease over
\* consecutive empty ticks, drops to 50 ms on the first non-empty tick, and
\* is the time the poll sleeps.
C30_AdaptiveDelay ==
    /\ [](\A p \in Procs : hk[p].pollDelayMs >= 50 /\ hk[p].pollDelayMs <= 500)
    /\ [][\A p \in Procs :
            /\ Adapts(p) =>
                  LET k == hk[p].consecutiveEmptyPolls + 1 IN
                  IF Len(hk[p].updates) > 0
                  THEN hk'[p].pollDelayMs = 50 /\ hk'[p].consecutiveEmptyPolls = 0
                  ELSE /\ hk'[p].consecutiveEmptyPolls = k
                       /\ hk'[p].pollDelayMs = (IF 50 + 50 * k <= 500 THEN 50 + 50 * k
                                                ELSE 500)
                       /\ hk[p].consecutiveEmptyPolls > 0
                             => hk'[p].pollDelayMs >= hk[p].pollDelayMs
            /\ (hk[p].pc \in {"heartbeat", "heartbeat_save"} /\ hk'[p].pc = "sleep")
                  => hk'[p].wakeAt = now + hk[p].pollDelayMs]_vars

\* C30 witness: after more than nine consecutive empty ticks the poll sleeps
\* for the capped delay.
C30_Witness ==
    /\ hk["h1"].pc = "sleep"
    /\ hk["h1"].consecutiveEmptyPolls > 9
    /\ hk["h1"].pollDelayMs = MaxPollDelayMs
    /\ hk["h1"].wakeAt = now + MaxPollDelayMs


(* ----------------------- first fit ------------------------------------- *)
\* the indices of the envelopes of global.jsonl that have no claim record and
\* that the predicate of p accepts
MatchingUnclaimed(p) ==
    {i \in DOMAIN globalQueue :
        /\ parses(globalQueue[i])
        /\ Unclaimed(globalQueue[i])
        /\ filterFn(p, globalQueue[i].update)}

\* a step of markUpdateAsProcessed(p)
Marks(p) == hk[p].pc = "mark" /\ hk'[p].pc # "mark"

\* C31: when unclaimed envelopes match the predicate, a claim that succeeds
\* takes the first of them in the order of the append log, and only that one:
\* the call writes one claim record, for the envelope it picked, and the other
\* matching envelopes stay unclaimed.
C31_FirstFit ==
    [][\A p \in Procs :
          /\ (Scans(p) /\ hk'[p].claimed # None /\ MatchingUnclaimed(p) # {})
                => hk'[p].claimed =
                      globalQueue[CHOOSE i \in MatchingUnclaimed(p) :
                                     \A j \in MatchingUnclaimed(p) : i <= j]
          /\ Marks(p)
                => /\ Len(processedQueue') = Len(processedQueue) + 1
                   /\ processedQueue'[Len(processedQueue')].update_id
                         = hk[p].claimed.update_id
                   /\ \A i \in MatchingUnclaimed(p) :
                         globalQueue[i].update_id # hk[p].claimed.update_id
                            => globalQueue[i].update_id
                                  \notin getProcessedUpdateIds(processedQueue')]_vars


(* ----------------------- high-water mark ------------------------------- *)
\* a step of FetchOk(p): the getUpdates request of p resolved
Fetches(p) == hk[p].pc = "fetch" /\ hk'[p].pc \in {"dedup_processed", "lock"}

\* C32: within a poll lastUpdateId never decreases; a fetch returns only
\* updates with an id above it; after a non-empty fetch it is the largest id
\* of the batch, whether the updates of the batch were appended or dropped as
\* duplicates; and no other step of the poll changes it.
C32_HighWaterMark ==
    [][\A p \in Procs :
          /\ (InPoll(p) /\ InPoll(p)')
                => hk'[p].lastUpdateId >= hk[p].lastUpdateId
          /\ Fetches(p) =>
                LET batch == hk'[p].updates IN
                /\ \A i \in DOMAIN batch : batch[i].update_id > hk[p].lastUpdateId
                /\ batch = <<>> => hk'[p].lastUpdateId = hk[p].lastUpdateId
                /\ batch # <<>> =>
                      /\ \A i \in DOMAIN batch : batch[i].update_id <= hk'[p].lastUpdateId
                      /\ \E i \in DOMAIN batch : batch[i].update_id = hk'[p].lastUpdateId
          /\ (InPoll(p) /\ InPoll(p)' /\ ~Fetches(p))
                => hk'[p].lastUpdateId = hk[p].lastUpdateId]_vars

\* C32 witness: the first wait fetched two updates in one batch and returned
\* with the Reply press; the free-text wait, a new poll, fetched the same two
\* again, dropped both as duplicates, and its mark stands at the second.
C32_Witness ==
    /\ InTextWait("h1") /\ hk["h1"].pc = "lock"
    /\ Len(hk["h1"].updates) = 2
    /\ Len(globalQueue) = 2
    /\ hk["h1"].lastUpdateId = 2


(* ----------------------- concurrent approvals -------------------------- *)
\* the update is a button press tagged with the approval id of p
OwnResponse(p, update) == update.callback_query /\ update.ref = approvalIdOf(p)

\* C33: an approval wait claims only button presses that carry its own
\* approval id: never a free-text message, never a press tagged with another
\* approval's id; so each of two concurrent approvals is returned, and writes
\* claim records for, its own responses only.
C33_ApprovalClaimsOwnResponse ==
    /\ [][\A p \in Procs :
            (Scans(p) /\ hk[p].hook = "PermissionRequest" /\ hk'[p].claimed # None)
                => OwnResponse(p, hk'[p].claimed.update)]_vars
    /\ [](\A p \in Procs :
            (hk[p].hook = "PermissionRequest" /\ Returned(p))
                => /\ OwnResponse(p, hk[p].update.update)
                   /\ \A q \in Procs \ {p} : ~OwnResponse(q, hk[p].update.update))
    /\ [](\A i \in DOMAIN processedQueue :
            hk[processedQueue[i].processed_by].hook = "PermissionRequest"
                => OwnResponse(processedQueue[i].processed_by,
                               tgUpdates[processedQueue[i].update_id]))

\* C33 witness: a text message and then the press of h2's button arrived;
\* h2 was returned its press, the text message in front of it stays unclaimed
\* and h1 has ended without a message.
C33_Witness ==
    /\ tgUpdates = <<TextMessage, Callback("deny", approvalIdOf("h2"))>>
    /\ Returned("h2") /\ hk["h2"].update.update_id = 2
    /\ hk["h1"].poll = "timeout"
    /\ getProcessedUpdateIds(processedQueue) = {2}


(* ----------------------- append-only logs ------------------------------ *)
IsPrefix(s, t) == Len(s) <= Len(t) /\ SubSeq(t, 1, Len(s)) = s

\* p is inside atomicClaimMessage
InTryClaim(p) ==
    hk[p].pc \in {"lock", "scan_processed", "scan_global", "mark", "unlock"}

\* C34: global.jsonl and processed.jsonl only grow at their end: no step
\* removes or alters a line.  No step of atomicClaimMessage changes
\* global.jsonl; a call that found no envelope changes neither file; a call
\* that picked an envelope appends one record, for that envelope and in the
\* name of the caller, and then leaves.
C34_AppendOnly ==
    [][/\ IsPrefix(globalQueue, globalQueue')
       /\ IsPrefix(processedQueue, processedQueue')
       /\ \A p \in Procs :
            (InTryClaim(p) /\ hk'[p] # hk[p]) =>
                /\ globalQueue' = globalQueue
                /\ IF Marks(p)
                   THEN /\ hk[p].claimed # None
                        /\ processedQueue' = Append(processedQueue,
                              [update_id |-> hk[p].claimed.update_id,
                               processed_by |-> p])
                        /\ hk'[p].pc = "unlock"
                   ELSE processedQueue' = processedQueue
                /\ hk[p].pc = "scan_global"
                      => hk'[p].pc = (IF hk'[p].claimed = None THEN "unlock" ELSE "mark")
                /\ hk[p].pc = "unlock" => ~InTryClaim(p)']_vars

\* C34 witness: a call that found no envelope for its caller is about to
\* return while both logs hold lines.
C34_Witness ==
    \E p \in Procs :
        /\ hk[p].pc = "unlock" /\ hk[p].claimed = None
        /\ Len(globalQueue) = 2 /\ Len(processedQueue) = 1


(* ----------------------- concurrent registry writes -------------------- *)
\* the step of updateSessionActivity that writes active-sessions.json
HeartbeatWrites(p) == hk[p].pc = "heartbeat_save" /\ hk'[p].pc # "heartbeat_save"

\* C35: a heartbeat of session A changes the last-activity time of A and
\* nothing else in the registry, whatever other processes do at the same
\* time: every other entry is as it was before the write, be it present or
\* removed, and an entry of A that is gone is not written back.
C35_HeartbeatTouchesOwnEntryOnly ==
    [][\A p \in Procs : HeartbeatWrites(p) =>
          /\ \A s \in Sessions \ {sessionOf(p)} :
                activeSessions'[s] = activeSessions[s]
          /\ activeSessions[sessionOf(p)] = None
                => activeSessions'[sessionOf(p)] = None]_vars


(* ----------------------- sweep cadence --------------------------------- *)
\* the step of removeActiveSession that writes active-sessions.json
SweepWrites(p) == hk[p].pc = "sweep_save" /\ hk'[p].pc # "sweep_save"

\* C36: registry entries are removed by the sweep of a poller's tick only; a
\* poller sweeps only when more than 60 s have passed since its last sweep,
\* and records the time of the sweep; a sweep removes the sessions listed by
\* checkAbandonedSessions, one by one, and each removal leaves the entries of
\* all other sessions as they are.
C36_SweepInTickOncePerMinute ==
    [][/\ (\E s \in Sessions : activeSessions[s] # None /\ activeSessions'[s] = None)
             => \E p \in Procs : SweepWrites(p)
       /\ \A p \in Procs :
            /\ Sweeps(p)
                  => /\ now - hk[p].lastAbandonedCheck > AbandonedCheckIntervalMs
                     /\ hk'[p].abandoned = checkAbandonedSessions(activeSessions, now)
            /\ (hk[p].pc = "sweep" /\ hk'[p].pc = "heartbeat")
                  => (hk'[p].lastAbandonedCheck = now /\ hk[p].abandoned = {})
            /\ (hk[p].pc = "sweep" /\ hk'[p].pc = "sweep_save")
                  => hk'[p].target \in hk[p].abandoned
            /\ SweepWrites(p)
                  => /\ activeSessions'[hk[p].target] = None
                     /\ \A s \in Sessions \ {hk[p].target} :
                           activeSessions'[s] = activeSessions[s]]_vars


(* ----------------------- a matching envelope is returned --------------- *)
\* the batch that p fetched holds an update without claim record that the
\* predicate of p accepts
FetchedMatching(p) ==
    \E i \in DOMAIN hk[p].updates :
        /\ Unclaimed(hk[p].updates[i])
        /\ filterFn(p, hk[p].updates[i].update)

\* C37: a tick whose fetch succeeded goes on to the claim; a claim that is
\* attempted while the append log holds an unclaimed envelope matching the
\* predicate picks an envelope; and a poller whose fetch delivered such an
\* envelope, or that starts its claim while the log holds one, is returned a
\* message, whatever happens to the mode file or the clock from then on.
C37_MatchingEnvelopeReturned ==
    /\ [][\A p \in Procs :
            (Scans(p) /\ MatchingUnclaimed(p) # {}) => hk'[p].claimed # None]_vars
    /\ \A p \in Procs :
          /\ (hk[p].pc = "dedup_processed") ~> (hk[p].pc = "lock")
          /\ (hk[p].pc = "dedup_processed" /\ FetchedMatching(p)) ~> Returned(p)
          /\ (hk[p].pc = "lock" /\ MatchingUnclaimed(p) # {}) ~> Returned(p)


(* ----------------------- what a poll returns --------------------------- *)
\* C38: an envelope that distributedTelegramPoll returns was accepted by the
\* predicate and had no claim record when atomicClaimMessage picked it and
\* when its record was written, and processed.jsonl holds a record of it in
\* the name of the caller from before the return.
C38_ReturnedWasUnclaimedMatch ==
    /\ [][\A p \in Procs :
            /\ (Scans(p) /\ hk'[p].claimed # None)
                  => /\ filterFn(p, hk'[p].claimed.update)
                     /\ Unclaimed(hk'[p].claimed)
            /\ Marks(p) => Unclaimed(hk[p].claimed)]_vars
    /\ [](\A p \in Procs :
            (Returned(p) \/ (hk[p].pc = "unlock" /\ hk[p].claimed # None))
                => \E i \in DOMAIN processedQueue :
                      /\ processedQueue[i].processed_by = p
                      /\ processedQueue[i].update_id
                            = (IF Returned(p) THEN hk[p].update.update_id
                               ELSE hk[p].claimed.update_id))


(* ----------------------- the lock file --------------------------------- *)
\* a step of p that unlinks message-claim.lock
Unlinks(p) == hk'[p] # hk[p] /\ lockFile # NoFile /\ lockFile' = NoFile

\* C39: the lock file is unlinked only by the process that created it: a
\* process that left the acquisition loop without the lock does not unlink
\* the file of the holder.
C39_OnlyHolderUnlinks ==
    [][\A p \in Procs : Unlinks(p) => (lockFile = p /\ hk[p].acquired)]_vars


====
